---------------------------- MODULE Spec2Model ----------------------------
(***************************************************************************)
(* A model of the analysis layer of BHS_RestInfo (src/analysis/data.py):   *)
(*   - TemperatureDailyChronology: lazy day/night statistics (_init_raw)   *)
(*     and the per-hour regression series (_init_ph);                      *)
(*   - CesspitHistory: splicing, clamping, removal detection, retained     *)
(*     deltas and the per-hour / per-day clustering.                       *)
(*                                                                         *)
(* Conventions.  Timestamps are whole seconds counted from 00:00:00 of the *)
(* first modelled day (the database delivers no fractions of a second).    *)
(* Python's None is the empty tuple and a present value x is <<x>>.  A     *)
(* reference to a reading object is the index of the reading in the list   *)
(* that holds it (0 for None), so that an assignment through one reference *)
(* is seen through every other reference, as in Python.  Floating point    *)
(* values are exact rationals <<n, d>>; <<0, 0>> is NaN.                   *)
(***************************************************************************)
EXTENDS Integers, Sequences, FiniteSets, TLC

VARIABLES
    tdc_in,      \* the arguments TemperatureDailyChronology was built from
    tdc,         \* the fields of the TemperatureDailyChronology instance
    ch_in,       \* the arguments CesspitHistory was built from
    ch,          \* the fields of the CesspitHistory instance (None: not built)
    ctor_exc,    \* the exception the constructor ended with, "none" if it returned
    watched,     \* the accessor whose results are being recorded ("none": no one)
    first_ret,   \* None, or <<result of the first call of the watched accessor>>
    last_ret,    \* None, or <<result of its latest call>>
    rain_in,     \* the arguments RainLastHours was built from
    rain,        \* the fields of the RainLastHours instance (None: not built)
    rain_ret,    \* None, or <<what the latest call on the RainLastHours returned>>
    graph,       \* the graph object built on tdc or ch (None: not built)
    pb,          \* ProgressBar._CACHE and the callers of cached_svg (None: unused)
    pg,          \* PredictionCesspitGraph's class cache and its callers (None: unused)
    poller       \* SystemStatusThread and the process around it (None: unused)

vars == <<tdc_in, tdc, ch_in, ch, ctor_exc, watched, first_ret, last_ret,
          rain_in, rain, rain_ret, graph,
          pb, pg, poller>>

---------------------------------------------------------------------------
(* Python values *)

None == <<>>
Some(x) == <<x>>
IsNone(x) == x = <<>>
Val(x) == x[1]
\* "not x" for x a list or None
Falsy(x) == IsNone(x) \/ Val(x) = <<>>
NoneTuple == <<None, None>>

Last(s) == s[Len(s)]

RECURSIVE SumSeq(_)
SumSeq(s) == IF s = <<>> THEN 0 ELSE s[1] + SumSeq(Tail(s))

Abs(x) == IF x < 0 THEN -x ELSE x

RECURSIVE GCD(_, _)
GCD(a, b) == IF b = 0 THEN Abs(a) ELSE GCD(b, a % b)

\* the rational n/d in lowest terms, d > 0
Rat(n, d) ==
    LET g == GCD(Abs(n), Abs(d))
        s == IF d < 0 THEN -1 ELSE 1
    IN <<(s * n) \div g, (s * d) \div g>>

NaN == <<0, 0>>
IsNaN(q) == q[2] = 0
\* abs(q - m) for a float q and a reading's temperature m
AbsDiff(q, m) == IF IsNaN(q) THEN NaN ELSE Rat(Abs(q[1] - m * q[2]), q[2])

\* scipy.stats.tmean of a non-empty list without limits: the arithmetic mean
tmean(s) == Rat(SumSeq(s), Len(s))

SECONDS_PER_HOUR == 3600
SECONDS_PER_DAY == 86400
LAST_HOUR_OF_DAY == 23

---------------------------------------------------------------------------
(* TemperatureDailyChronology *)

\* what SunsetCalculator(dt=the_date) answers for the modelled day
SUNRISE == 23400
SUNSET == 72000

TDC_new(records, the_date, is_for_today, identical_x) ==
    [ raw_records |-> records,
      the_date |-> the_date,
      raw_timeline |-> None,
      raw_temperatures |-> None,
      ph_timeline |-> None,
      ph_temperatures |-> None,
      ph_errors_upper |-> None,
      ph_errors_lower |-> None,
      ph_errors |-> None,
      ph_min_temperatures |-> None,
      ph_max_temperatures |-> None,
      raw_min_daily |-> 0,
      raw_max_daily |-> 0,
      raw_avg_daily |-> None,
      sunrise |-> SUNRISE,
      sunset |-> SUNSET,
      raw_min_day |-> 0,
      raw_max_day |-> 0,
      raw_avg_day |-> None,
      raw_min_night |-> 0,
      raw_max_night |-> 0,
      raw_avg_night |-> None,
      is_for_today |-> is_for_today,
      \* instrumentation: how often each lazy initialisation has run
      n_init_raw |-> 0,
      n_init_ph |-> 0,
      \* environment: what the installed scipy.stats.linregress does when all
      \* x are identical ("ValueError" in current releases, "nan" in old ones)
      identical_x |-> identical_x ]

\* is_valid without the length test
TDC_is_valid_body_notnone(o) == TRUE

\* line 117 (the list is never None: the constructor refuses it, line 82)
TDC_is_valid_body(o) == Len(o.raw_records) > 0

RECURSIVE MinRef(_, _, _)
\* the loop "if not m or m.temperature > record.temperature: m = record"
\* over the readings idx[1..], starting from reference cur
MinRef(recs, idx, cur) ==
    IF idx = <<>> THEN cur
    ELSE MinRef(recs, Tail(idx),
            IF cur = 0 \/ recs[cur].temperature > recs[idx[1]].temperature
            THEN idx[1] ELSE cur)

RECURSIVE MaxRef(_, _, _)
MaxRef(recs, idx, cur) ==
    IF idx = <<>> THEN cur
    ELSE MaxRef(recs, Tail(idx),
            IF cur = 0 \/ recs[cur].temperature < recs[idx[1]].temperature
            THEN idx[1] ELSE cur)

Temps(recs, idx) == [k \in 1..Len(idx) |-> recs[idx[k]].temperature]

\* the day test with the interval closed
IsDayReading_closed(o, r) == o.sunrise <= r.timestamp /\ r.timestamp <= o.sunset

\* line 143
IsDayReading(o, r) == o.sunrise < r.timestamp /\ r.timestamp < o.sunset

\* "<reference>.timestamp = t": the reading itself is changed
SetTimestamp(recs, ref, t) == [recs EXCEPT ![ref].timestamp = t]

\* lines 126-161: the loop over the readings and the three means.  Yields the
\* instance and the local lists _day and _night (as references).  The means are not
\* reset by _init_raw, only overwritten.
RawLoop(o) ==
    LET recs == o.raw_records
        n == Len(recs)
        all == [k \in 1..n |-> k]
        day == SelectSeq(all, LAMBDA k : IsDayReading(o, recs[k]))
        night == SelectSeq(all, LAMBDA k : ~IsDayReading(o, recs[k]))
    IN [ day |-> day,
         night |-> night,
         obj |-> [o EXCEPT
            !.raw_timeline = Some([k \in 1..n |-> recs[k].timestamp]),
            !.raw_temperatures = Some([k \in 1..n |-> recs[k].temperature]),
            !.raw_min_daily = MinRef(recs, all, 0),
            !.raw_max_daily = MaxRef(recs, all, 0),
            !.raw_min_day = MinRef(recs, day, 0),
            !.raw_max_day = MaxRef(recs, day, 0),
            !.raw_min_night = MinRef(recs, night, 0),
            !.raw_max_night = MaxRef(recs, night, 0),
            !.raw_avg_daily = IF n > 0 THEN Some(tmean(Temps(recs, all))) ELSE @,
            !.raw_avg_day = IF Len(day) > 0 THEN Some(tmean(Temps(recs, day))) ELSE @,
            !.raw_avg_night =
                IF Len(night) > 0 THEN Some(tmean(Temps(recs, night))) ELSE @,
            !.n_init_raw = @ + 1] ]

FirstDayTemp(w) == w.obj.raw_records[w.day[1]].temperature
LastDayTemp(w) == w.obj.raw_records[Last(w.day)].temperature

\* always the first reading of the day partition
SynthRef_first(day, firstWins) == day[1]

\* the reading taken for a missing night extreme: the first reading of the
\* day partition when firstWins, else the last
SynthRef(day, firstWins) == IF firstWins THEN day[1] ELSE Last(day)

\* lines 168-169 / 174-175
PullBack(o, recs, ref) ==
    IF o.is_for_today /\ recs[ref].timestamp > o.the_date
    THEN SetTimestamp(recs, ref, o.sunrise) ELSE recs

\* lines 166-169 / 172-175: the chosen reading is given the timestamp of
\* sunrise or sunset
Restamp(o, ref, firstWins) ==
    PullBack(o, SetTimestamp(o.raw_records, ref,
                             IF firstWins THEN o.sunrise ELSE o.sunset), ref)

SetMinNight(o, ref, firstWins) ==
    [o EXCEPT !.raw_min_night = ref, !.raw_records = Restamp(o, ref, firstWins)]

SetMaxNight(o, ref, firstWins) ==
    [o EXCEPT !.raw_max_night = ref, !.raw_records = Restamp(o, ref, firstWins)]

\* lines 163-169
SynthMinNight(w) ==
    IF Len(w.day) > 0 /\ w.obj.raw_min_night = 0
    THEN [w EXCEPT !.obj =
            SetMinNight(@, SynthRef(w.day, FirstDayTemp(w) < LastDayTemp(w)),
                        FirstDayTemp(w) < LastDayTemp(w))]
    ELSE w

\* lines 170-175
SynthMaxNight(w) ==
    IF Len(w.day) > 0 /\ w.obj.raw_max_night = 0
    THEN [w EXCEPT !.obj =
            SetMaxNight(@, SynthRef(w.day, FirstDayTemp(w) > LastDayTemp(w)),
                        FirstDayTemp(w) > LastDayTemp(w))]
    ELSE w

\* lines 176-177
SynthAvgNight(w) ==
    IF Len(w.day) > 0 /\ IsNone(w.obj.raw_avg_night)
    THEN [w EXCEPT !.obj.raw_avg_night = Some(Rat(FirstDayTemp(w) + LastDayTemp(w), 2))]
    ELSE w

\* lines 180-182
CopyMinDay(o) ==
    IF o.raw_min_night # 0 /\ o.raw_min_day = 0
    THEN [o EXCEPT !.raw_min_day = o.raw_min_night,
                   !.raw_records = SetTimestamp(@, o.raw_min_night, o.sunset)]
    ELSE o

\* lines 183-185
CopyMaxDay(o) ==
    IF o.raw_max_night # 0 /\ o.raw_max_day = 0
    THEN [o EXCEPT !.raw_max_day = o.raw_max_night,
                   !.raw_records = SetTimestamp(@, o.raw_max_night, o.sunset)]
    ELSE o

\* lines 186-187
CopyAvgDay(o) ==
    IF ~IsNone(o.raw_avg_night) /\ IsNone(o.raw_avg_day)
    THEN [o EXCEPT !.raw_avg_day = o.raw_avg_night]
    ELSE o

\* the copy made whatever the date
CopyNightToDay_always(o) == CopyAvgDay(CopyMaxDay(CopyMinDay(o)))

\* lines 179-187
CopyNightToDay(o) ==
    IF ~o.is_for_today \/ o.the_date > o.sunrise
    THEN CopyAvgDay(CopyMaxDay(CopyMinDay(o)))
    ELSE o

TDC_init_raw(o) ==
    CopyNightToDay(SynthAvgNight(SynthMaxNight(SynthMinNight(RawLoop(o)))).obj)

\* the readings (by reference, in list order) regressed for the hour mark h,
\* lines 206-232
Observations(o, h) ==
    LET recs == o.raw_records
        all == [k \in 1..Len(recs) |-> k]
        downs == SelectSeq(all, LAMBDA k : h > recs[k].timestamp)
        ups == SelectSeq(all, LAMBDA k : h < recs[k].timestamp)
        last_hour == SelectSeq(all, LAMBDA k :
                        /\ 0 < h - recs[k].timestamp
                        /\ h - recs[k].timestamp <= SECONDS_PER_HOUR)
        next_hour == SelectSeq(all, LAMBDA k :
                        /\ 0 >= h - recs[k].timestamp
                        /\ h - recs[k].timestamp >= -SECONDS_PER_HOUR)
    IN (IF Len(last_hour) > 0 THEN last_hour
        ELSE IF Len(downs) > 0 THEN <<Last(downs)>>     \* closest_down
        ELSE <<>>)
       \o
       (IF Len(next_hour) > 0 THEN next_hour
        ELSE IF Len(ups) > 0 THEN <<ups[1]>>            \* closest_up
        ELSE <<>>)

RECURSIVE GCDSeq(_)
GCDSeq(s) == IF s = <<>> THEN 0 ELSE GCD(s[1], GCDSeq(Tail(s)))

AllEqual(s) == \A i, j \in 1..Len(s) : s[i] = s[j]

\* the mean of y in place of the intercept (the slope ignored)
Intercept_mean(u, y) == Rat(SumSeq(y), Len(y))

\* (Sy*Sxx - Sx*Sxy) / (n*Sxx - Sx^2)
Intercept(u, y) ==
    LET n == Len(u)
        Sx == SumSeq(u)
        Sxx == SumSeq([k \in 1..n |-> u[k] * u[k]])
    IN Rat(SumSeq(y) * Sxx - Sx * SumSeq([k \in 1..n |-> u[k] * y[k]]),
           n * Sxx - Sx * Sx)

DivideAll(x, g) == [k \in 1..Len(x) |-> x[k] \div g]

\* scipy.stats.linregress(x, y).intercept for x not all identical, exactly.
\* The intercept does not change when every x is divided by a common
\* factor, which keeps the sums small.
linregress_intercept(x, y) == Intercept(DivideAll(x, GCDSeq(x)), y)

MinOf(s) == CHOOSE m \in {s[k] : k \in 1..Len(s)} : \A k \in 1..Len(s) : m <= s[k]
MaxOf(s) == CHOOSE m \in {s[k] : k \in 1..Len(s)} : \A k \in 1..Len(s) : m >= s[k]

\* lines 234-243, for the offsets x and temperatures y of two or more, or
\* of one observation
Estimate(x, y) ==
    IF Len(x) > 1
    THEN IF AllEqual(x) THEN NaN ELSE linregress_intercept(x, y)
    ELSE Rat(y[1], 1)

\* the appends with the minimum and the maximum exchanged in the errors
PhAppend_swapped(acc, est, y) ==
    [ temps |-> Append(acc.temps, est),
      lower |-> Append(acc.lower, AbsDiff(est, MaxOf(y))),
      upper |-> Append(acc.upper, AbsDiff(est, MinOf(y))),
      mins |-> Append(acc.mins, MinOf(y)),
      maxs |-> Append(acc.maxs, MaxOf(y)),
      exc |-> "none" ]

\* lines 241-252
PhAppend(acc, est, y) ==
    [ temps |-> Append(acc.temps, est),
      lower |-> Append(acc.lower, AbsDiff(est, MinOf(y))),
      upper |-> Append(acc.upper, AbsDiff(est, MaxOf(y))),
      mins |-> Append(acc.mins, MinOf(y)),
      maxs |-> Append(acc.maxs, MaxOf(y)),
      exc |-> "none" ]

\* lines 234-252 for one mark; acc holds the lists built so far and the
\* exception that ended the loop, if any
PhEstimate(o, acc, x, y) ==
    IF Len(x) > 1 /\ AllEqual(x) /\ o.identical_x = "ValueError"
    THEN [acc EXCEPT !.exc = "ValueError"]
    ELSE IF Len(x) = 0
    THEN IF Len(acc.temps) > 0
         THEN [acc EXCEPT !.exc = "ValueError"]      \* min([]), line 247
         ELSE acc
    ELSE PhAppend(acc, Estimate(x, y), y)

Offsets(recs, obs, h) == [k \in 1..Len(obs) |-> recs[obs[k]].timestamp - h]

PhMarkWith(o, h, acc, obs) ==
    PhEstimate(o, acc, Offsets(o.raw_records, obs, h), Temps(o.raw_records, obs))

\* one pass of the loop body, lines 203-252, for the mark h
PhMark(o, h, acc) == PhMarkWith(o, h, acc, Observations(o, h))

RECURSIVE PhLoop(_, _, _)
PhLoop(o, marks, acc) ==
    IF marks = <<>> \/ acc.exc # "none" THEN acc
    ELSE PhLoop(o, Tail(marks), PhMark(o, marks[1], acc))

RoundHours(day0, hour) == [k \in 1..(hour + 1) |-> day0 + (k - 1) * SECONDS_PER_HOUR]

\* lines 190-194
PhTimeline(the_date) ==
    IF (the_date % SECONDS_PER_DAY) \div SECONDS_PER_HOUR = LAST_HOUR_OF_DAY
    THEN Append(RoundHours(the_date - (the_date % SECONDS_PER_DAY), LAST_HOUR_OF_DAY),
                the_date)
    ELSE RoundHours(the_date - (the_date % SECONDS_PER_DAY),
                    (the_date % SECONDS_PER_DAY) \div SECONDS_PER_HOUR)

EmptyAcc ==
    [temps |-> <<>>, lower |-> <<>>, upper |-> <<>>, mins |-> <<>>, maxs |-> <<>>,
     exc |-> "none"]

\* the lists are the instance's own and are filled in place: what was
\* appended before an exception stays
PhAssign(o, marks, acc) ==
    [ obj |-> [o EXCEPT
                 !.ph_timeline = Some(marks),
                 !.ph_temperatures = Some(acc.temps),
                 !.ph_errors_upper = Some(acc.upper),
                 !.ph_errors_lower = Some(acc.lower),
                 !.ph_errors = Some(<<>>),
                 !.ph_min_temperatures = Some(acc.mins),
                 !.ph_max_temperatures = Some(acc.maxs),
                 !.n_init_ph = @ + 1],
      exc |-> acc.exc ]

PhRun(o, marks) == PhAssign(o, marks, PhLoop(o, marks, EmptyAcc))

\* _init_ph: the instance after the call and the exception it ended with
TDC_init_ph(o) == PhRun(o, PhTimeline(o.the_date))

(* The accessors.  Each yields the instance after the call, the value       *)
(* returned (None, or <<v>>; a tuple is a tuple of such values) and the      *)
(* exception the call ended with ("none" when it returned).                  *)

Ok(o, v) == [obj |-> o, ret |-> v, exc |-> "none"]
Raise(o, e) == [obj |-> o, ret |-> None, exc |-> e]

\* (r.timestamp, r.temperature) if the reference is set, else (None, None)
RefTuple(o, ref) ==
    IF ref # 0
    THEN Some(<<Some(o.raw_records[ref].timestamp), Some(o.raw_records[ref].temperature)>>)
    ELSE Some(NoneTuple)

\* "if <sentinel>: self._init_raw()"
LazyRaw(o, stale) == IF stale THEN TDC_init_raw(o) ELSE o

\* "if not <list>: self._init_ph()"
LazyPh(o, stale) == IF stale THEN TDC_init_ph(o) ELSE [obj |-> o, exc |-> "none"]

\* "return self.<f>"
ReturnField(o, f) == Ok(o, o[f])
\* "return (self.<f>.timestamp, self.<f>.temperature) if ... else (None, None)"
ReturnRef(o, f) == Ok(o, RefTuple(o, o[f]))
\* the same after _init_ph, whose exception goes to the caller
ReturnPhField(r, f) == IF r.exc # "none" THEN Raise(r.obj, r.exc) ELSE Ok(r.obj, r.obj[f])

TDC_is_valid(o) == Ok(o, Some(TDC_is_valid_body(o)))

TDC_get_raw_timeline(o) == ReturnField(LazyRaw(o, Falsy(o.raw_timeline)), "raw_timeline")

TDC_get_raw_temperatures(o) ==
    ReturnField(LazyRaw(o, Falsy(o.raw_temperatures)), "raw_temperatures")

TDC_get_raw_last(o) ==
    IF Len(o.raw_records) = 0 THEN Raise(o, "IndexError")
    ELSE Ok(o, Some(<<Some(Last(o.raw_records).timestamp),
                      Some(Last(o.raw_records).temperature)>>))

TDC_get_perhour_timeline(o) ==
    ReturnPhField(LazyPh(o, Falsy(o.ph_timeline)), "ph_timeline")

TDC_get_perhour_temperatures(o) ==
    ReturnPhField(LazyPh(o, Falsy(o.ph_temperatures)), "ph_temperatures")

\* line 281
PhLast(r) ==
    IF r.exc # "none" THEN Raise(r.obj, r.exc)
    ELSE IF Len(Val(r.obj.ph_timeline)) = 0 \/ Len(Val(r.obj.ph_temperatures)) = 0
    THEN Raise(r.obj, "IndexError")
    ELSE Ok(r.obj, Some(<<Some(Last(Val(r.obj.ph_timeline))),
                          Some(Last(Val(r.obj.ph_temperatures)))>>))

TDC_get_perhour_last(o) == PhLast(LazyPh(o, Falsy(o.ph_temperatures)))

TDC_get_perhour_min_temperatures(o) ==
    ReturnPhField(LazyPh(o, Falsy(o.ph_min_temperatures)), "ph_min_temperatures")

TDC_get_perhour_max_temperatures(o) ==
    ReturnPhField(LazyPh(o, Falsy(o.ph_max_temperatures)), "ph_max_temperatures")

TDC_get_lower_errors(o) ==
    ReturnPhField(LazyPh(o, Falsy(o.ph_errors_lower)), "ph_errors_lower")

TDC_get_upper_errors(o) ==
    ReturnPhField(LazyPh(o, Falsy(o.ph_errors_upper)), "ph_errors_upper")

TDC_get_min_daily(o) == ReturnRef(LazyRaw(o, o.raw_min_daily = 0), "raw_min_daily")

TDC_get_max_daily(o) == ReturnRef(LazyRaw(o, o.raw_max_daily = 0), "raw_max_daily")

TDC_get_min_day(o) == ReturnRef(LazyRaw(o, o.raw_min_day = 0), "raw_min_day")

TDC_get_max_day(o) == ReturnRef(LazyRaw(o, o.raw_max_day = 0), "raw_max_day")

TDC_get_min_night(o) == ReturnRef(LazyRaw(o, o.raw_min_night = 0), "raw_min_night")

TDC_get_max_night(o) == ReturnRef(LazyRaw(o, o.raw_max_night = 0), "raw_max_night")

TDC_get_avg_daily(o) == ReturnField(LazyRaw(o, IsNone(o.raw_avg_daily)), "raw_avg_daily")

TDC_get_avg_day(o) == ReturnField(LazyRaw(o, IsNone(o.raw_avg_day)), "raw_avg_day")

TDC_get_avg_night(o) == ReturnField(LazyRaw(o, IsNone(o.raw_avg_night)), "raw_avg_night")

\* "<tuple>[0] is not None" of the tuple a statistics accessor returned
FirstIsNotNone(r) == Ok(r.obj, Some(~IsNone(Val(r.ret)[1])))

\* "self.is_valid() and self.get_min_day()[0] is not None"
TDC_has_day_data(o) ==
    IF ~TDC_is_valid_body(o) THEN Ok(o, Some(FALSE))
    ELSE FirstIsNotNone(TDC_get_min_day(o))

TDC_has_night_data(o) ==
    IF ~TDC_is_valid_body(o) THEN Ok(o, Some(FALSE))
    ELSE FirstIsNotNone(TDC_get_min_night(o))

TDC_StatTupleAccessors ==
    {"get_min_daily", "get_max_daily", "get_min_day", "get_max_day",
     "get_min_night", "get_max_night"}
TDC_StatAvgAccessors == {"get_avg_daily", "get_avg_day", "get_avg_night"}
TDC_Predicates == {"is_valid", "has_day_data", "has_night_data"}
TDC_ListAccessors ==
    {"get_raw_timeline", "get_raw_temperatures", "get_perhour_timeline",
     "get_perhour_temperatures", "get_perhour_min_temperatures",
     "get_perhour_max_temperatures", "get_lower_errors", "get_upper_errors"}
TDC_LastAccessors == {"get_raw_last", "get_perhour_last"}
TDC_Accessors ==
    TDC_StatTupleAccessors \cup TDC_StatAvgAccessors \cup TDC_Predicates
        \cup TDC_ListAccessors \cup TDC_LastAccessors

\* the call of the accessor named a
TDC_call(a, o) ==
    CASE a = "is_valid" -> TDC_is_valid(o)
      [] a = "has_day_data" -> TDC_has_day_data(o)
      [] a = "has_night_data" -> TDC_has_night_data(o)
      [] a = "get_raw_timeline" -> TDC_get_raw_timeline(o)
      [] a = "get_raw_temperatures" -> TDC_get_raw_temperatures(o)
      [] a = "get_raw_last" -> TDC_get_raw_last(o)
      [] a = "get_perhour_timeline" -> TDC_get_perhour_timeline(o)
      [] a = "get_perhour_temperatures" -> TDC_get_perhour_temperatures(o)
      [] a = "get_perhour_last" -> TDC_get_perhour_last(o)
      [] a = "get_perhour_min_temperatures" -> TDC_get_perhour_min_temperatures(o)
      [] a = "get_perhour_max_temperatures" -> TDC_get_perhour_max_temperatures(o)
      [] a = "get_min_daily" -> TDC_get_min_daily(o)
      [] a = "get_max_daily" -> TDC_get_max_daily(o)
      [] a = "get_min_day" -> TDC_get_min_day(o)
      [] a = "get_max_day" -> TDC_get_max_day(o)
      [] a = "get_min_night" -> TDC_get_min_night(o)
      [] a = "get_max_night" -> TDC_get_max_night(o)
      [] a = "get_avg_daily" -> TDC_get_avg_daily(o)
      [] a = "get_avg_day" -> TDC_get_avg_day(o)
      [] a = "get_avg_night" -> TDC_get_avg_night(o)
      [] a = "get_lower_errors" -> TDC_get_lower_errors(o)
      [] a = "get_upper_errors" -> TDC_get_upper_errors(o)

---------------------------------------------------------------------------
(* CesspitHistory *)

\* Python's s[b:e] for 0 <= b (indices from 0, e exclusive, both clamped)
PySlice(s, b, e) ==
    LET hi == IF e < Len(s) THEN e ELSE Len(s)
    IN IF hi <= b THEN <<>> ELSE [k \in 1..(hi - b) |-> s[b + k]]

\* Python's zip of two lists: as long as the shorter
Zip(s, t) ==
    LET m == IF Len(s) < Len(t) THEN Len(s) ELSE Len(t)
    IN [k \in 1..m |-> <<s[k], t[k]>>]

RECURSIVE Concat(_)
\* reduce(lambda x, y: x+y, lists) for a non-empty list of lists
Concat(ss) == IF Len(ss) = 1 THEN ss[1] ELSE ss[1] \o Concat(Tail(ss))

\* timestamp.replace(hour=0, minute=0, second=0)
DayStart(t) == t - (t % SECONDS_PER_DAY)
\* midnight of the next day
DayEnd_midnight(t) == DayStart(t) + SECONDS_PER_DAY

\* timestamp.replace(hour=23, minute=59, second=59)
DayEnd(t) == DayStart(t) + SECONDS_PER_DAY - 1
\* timestamp.replace(minute=0, second=0, microsecond=0)
HourStart(t) == t - (t % SECONDS_PER_HOUR)

\* int(a / b) for b > 0: truncation towards zero
TruncDiv(a, b) == IF a >= 0 THEN a \div b ELSE -((-a) \div b)

\* line 430: the level of a window reading, raised to tank_full_mm
ClampLevel(level, full) == IF level > full THEN level ELSE full

\* lines 431-440: the adherent readings enter with their level as read
AdherentLevel(r, full) == r.level

\* lines 429, 433-434, 438-439: _timeline
SplicedTimeline(records, prev, next) ==
    (IF IsNone(prev) THEN <<>>
     ELSE <<IF Len(records) < 1 THEN Val(prev).timestamp
            ELSE DayStart(records[1].timestamp)>>)
    \o [k \in 1..Len(records) |-> records[k].timestamp]
    \o (IF IsNone(next) THEN <<>>
        ELSE <<IF Len(records) < 1 THEN Val(next).timestamp
               ELSE DayEnd(records[Len(records)].timestamp)>>)

\* lines 430, 435, 440: _levels
SplicedLevels(records, prev, next, full) ==
    (IF IsNone(prev) THEN <<>> ELSE <<AdherentLevel(Val(prev), full)>>)
    \o [k \in 1..Len(records) |-> ClampLevel(records[k].level, Val(full))]
    \o (IF IsNone(next) THEN <<>> ELSE <<AdherentLevel(Val(next), full)>>)

\* lines 426, 432, 437: self._records
SplicedRecords(records, prev, next) ==
    (IF IsNone(prev) THEN <<>> ELSE <<Val(prev)>>)
    \o records
    \o (IF IsNone(next) THEN <<>> ELSE <<Val(next)>>)

\* removal detection with "<=" in place of "<"
IsRemoval_le(d) == d <= 0

\* line 445: "if _d < 0"
IsRemoval(d) == d < 0

\* __init__: the instance, or the exception the constructor ended with
CH_new(records, prev, next, full, empty) ==
    IF Len(records) > 0 /\ IsNone(full)
    THEN [obj |-> None, exc |-> "TypeError"]     \* "_r.level > None", line 430
    ELSE
    LET records2 == SplicedRecords(records, prev, next)
        timeline == SplicedTimeline(records, prev, next)
        levels == SplicedLevels(records, prev, next, full)
        n == Len(timeline)
        \* line 443: zip(_levels[:-1], _levels[1:])
        deltas == [k \in 1..(IF n = 0 THEN 0 ELSE n - 1) |-> levels[k] - levels[k + 1]]
        nd == Len(deltas)
        \* line 445-446: indices, counted from 0 as in the source
        removals_d == SelectSeq([k \in 1..nd |-> k - 1], LAMBDA i : IsRemoval(deltas[i + 1]))
        removals_tm == [k \in 1..Len(removals_d) |-> removals_d[k] + 1]
        cuts == Zip(<<0>> \o removals_tm, Append(removals_tm, n))
        dcuts == Zip(<<-1>> \o removals_d, Append(removals_d, nd))
    IN [ obj |->
           [ records |-> records2,
             tank_full_mm |-> full,
             tank_empty_mm |-> empty,
             continuous_timelines |->
                 [k \in 1..Len(cuts) |-> PySlice(timeline, cuts[k][1], cuts[k][2])],
             continuous_levels |->
                 [k \in 1..Len(cuts) |-> PySlice(levels, cuts[k][1], cuts[k][2])],
             deltas_timeline |->
                 Concat([k \in 1..Len(cuts) |->
                            PySlice(timeline, cuts[k][1] + 1, cuts[k][2])]),
             deltas |->
                 Concat([k \in 1..Len(dcuts) |->
                            PySlice(deltas, dcuts[k][1] + 1, dcuts[k][2])]),
             deltas_timeline_ph |-> <<>>,
             deltas_ph |-> <<>>,
             deltas_timeline_pd |-> <<>>,
             deltas_pd |-> <<>>,
             \* instrumentation: how often each lazy initialisation was entered
             n_init_ph |-> 0,
             n_init_pd |-> 0 ],
         exc |-> "none" ]

\* is_valid with "<=" between the tank values
CH_is_valid_body_le(o) ==
    /\ Len(o.records) > 0
    /\ ~IsNone(o.tank_full_mm)
    /\ ~IsNone(o.tank_empty_mm)
    /\ Val(o.tank_full_mm) <= Val(o.tank_empty_mm)

CH_is_valid_body(o) ==
    /\ Len(o.records) > 0
    /\ ~IsNone(o.tank_full_mm)
    /\ ~IsNone(o.tank_empty_mm)
    /\ Val(o.tank_full_mm) < Val(o.tank_empty_mm)

\* the cluster search with the top boundary exclusive
ClusterOf_strict(tops, v) ==
    LET m == Len(tops)
        fits == {c \in 1..(m + 1) :
                   /\ (c = 1 \/ v > tops[c - 1])
                   /\ (c = m + 1 \/ v < tops[c])}
    IN IF fits = {} THEN 0 ELSE CHOOSE c \in fits : \A d \in fits : c <= d

\* lines 499-503: the first cluster (numbered from 1) whose interval holds the
\* clustering attribute v, 0 when none does; tops are the top boundaries
ClusterOf(tops, v) ==
    LET m == Len(tops)
        fits == {c \in 1..(m + 1) :
                   /\ (c = 1 \/ v > tops[c - 1])
                   /\ (c = m + 1 \/ v <= tops[c])}
    IN IF fits = {} THEN 0 ELSE CHOOSE c \in fits : \A d \in fits : c <= d

\* _cluster with get_clustering_attr = x[0] and get_value_attr = x[1]
CH_cluster(tops, objects) ==
    [c \in 1..(Len(tops) + 1) |->
        LET mine == SelectSeq(objects, LAMBDA x : ClusterOf(tops, x[1]) = c)
        IN [k \in 1..Len(mine) |-> mine[k][2]]]

\* the aggregation with every mark of the timeline as a boundary
Aggregate_allmarks(o, start, unit) ==
    LET stop == Last(o.records).timestamp
        count == TruncDiv(stop - start, unit) + 1
        marks == [k \in 1..(IF count < 0 THEN 0 ELSE count) |-> start + (k - 1) * unit]
        clustered == CH_cluster(marks, Zip(o.deltas_timeline, o.deltas))
    IN [ timeline |-> marks,
         sums |-> [c \in 1..Len(clustered) |->
                     IF Len(clustered[c]) = 0 THEN 0 ELSE SumSeq(clustered[c])] ]

\* the timeline and the summed clusters of _init_ph (unit = one hour) and
\* _init_pd (unit = one day), lines 522-528 and 536-542
Aggregate(o, start, unit) ==
    LET stop == Last(o.records).timestamp
        count == TruncDiv(stop - start, unit) + 1
        marks == [k \in 1..(IF count < 0 THEN 0 ELSE count) |-> start + (k - 1) * unit]
        clustered == CH_cluster(PySlice(marks, 1, Len(marks)),
                                Zip(o.deltas_timeline, o.deltas))
    IN [ timeline |-> marks,
         sums |-> [c \in 1..Len(clustered) |->
                     IF Len(clustered[c]) = 0 THEN 0 ELSE SumSeq(clustered[c])] ]

CH_init_ph(o) ==
    LET o1 == [o EXCEPT !.n_init_ph = @ + 1]
        agg == Aggregate(o, HourStart(o.records[1].timestamp), SECONDS_PER_HOUR)
    IN IF Len(o.records) = 0 THEN [obj |-> o1, exc |-> "IndexError"]
       ELSE [ obj |-> [o1 EXCEPT !.deltas_timeline_ph = agg.timeline,
                                 !.deltas_ph = agg.sums],
              exc |-> "none" ]

CH_init_pd(o) ==
    LET o1 == [o EXCEPT !.n_init_pd = @ + 1]
        agg == Aggregate(o, DayStart(o.records[1].timestamp), SECONDS_PER_DAY)
    IN IF Len(o.records) = 0 THEN [obj |-> o1, exc |-> "IndexError"]
       ELSE [ obj |-> [o1 EXCEPT !.deltas_timeline_pd = agg.timeline,
                                 !.deltas_pd = agg.sums],
              exc |-> "none" ]

\* "if len(<list>) == 0: self._init_ph()" / "... self._init_pd()"
LazyCesspitPh(o, stale) == IF stale THEN CH_init_ph(o) ELSE [obj |-> o, exc |-> "none"]
LazyCesspitPd(o, stale) == IF stale THEN CH_init_pd(o) ELSE [obj |-> o, exc |-> "none"]

CH_is_valid(o) == Ok(o, Some(CH_is_valid_body(o)))

CH_get_continuous_timeline(o) == Ok(o, Some(o.continuous_timelines))

CH_get_continuous_levels(o) == Ok(o, Some(o.continuous_levels))

\* the exception of "100 * d / (self._tank_empty_mm - self._tank_full_mm)"
\* (and of _fill_perc), "none" when the division can be done
PercExc(o) ==
    IF IsNone(o.tank_empty_mm) \/ IsNone(o.tank_full_mm) THEN "TypeError"
    ELSE IF Val(o.tank_empty_mm) = Val(o.tank_full_mm) THEN "ZeroDivisionError"
    ELSE "none"

fill_perc(o, level_mm) ==
    Rat(100 * (Val(o.tank_empty_mm) - level_mm),
        Val(o.tank_empty_mm) - Val(o.tank_full_mm))

DeltaPerc(o, d) == Rat(100 * d, Val(o.tank_empty_mm) - Val(o.tank_full_mm))

CH_get_continuous_fill_perc(o) ==
    LET cl == o.continuous_levels
        any == \E k \in 1..Len(cl) : Len(cl[k]) > 0
    IN IF any /\ PercExc(o) # "none" THEN Raise(o, PercExc(o))
       ELSE Ok(o, Some([k \in 1..Len(cl) |->
                          [j \in 1..Len(cl[k]) |-> fill_perc(o, cl[k][j])]]))

CH_get_per_hour_timeline(o) ==
    LET r == LazyCesspitPh(o, Len(o.deltas_timeline_ph) = 0)
    IN IF r.exc # "none" THEN Raise(r.obj, r.exc)
       ELSE Ok(r.obj, Some(r.obj.deltas_timeline_ph))

CH_get_per_hour_deltas(o) ==
    LET r == LazyCesspitPh(o, Len(o.deltas_ph) = 0)
    IN IF r.exc # "none" THEN Raise(r.obj, r.exc)
       ELSE Ok(r.obj, Some(r.obj.deltas_ph))

CH_get_per_hour_deltas_perc(o) ==
    LET r == LazyCesspitPh(o, Len(o.deltas_ph) = 0)
        d == r.obj.deltas_ph
    IN IF r.exc # "none" THEN Raise(r.obj, r.exc)
       ELSE IF Len(d) > 0 /\ PercExc(o) # "none" THEN Raise(r.obj, PercExc(o))
       ELSE Ok(r.obj, Some([k \in 1..Len(d) |-> DeltaPerc(o, d[k])]))

CH_get_per_day_timeline(o) ==
    LET r == LazyCesspitPd(o, Len(o.deltas_timeline_pd) = 0)
    IN IF r.exc # "none" THEN Raise(r.obj, r.exc)
       ELSE Ok(r.obj, Some(r.obj.deltas_timeline_pd))

CH_get_per_day_deltas(o) ==
    LET r == LazyCesspitPd(o, Len(o.deltas_pd) = 0)
    IN IF r.exc # "none" THEN Raise(r.obj, r.exc)
       ELSE Ok(r.obj, Some(r.obj.deltas_pd))

CH_get_per_day_deltas_perc(o) ==
    LET r == LazyCesspitPd(o, Len(o.deltas_pd) = 0)
        d == r.obj.deltas_pd
    IN IF r.exc # "none" THEN Raise(r.obj, r.exc)
       ELSE IF Len(d) > 0 /\ PercExc(o) # "none" THEN Raise(r.obj, PercExc(o))
       ELSE Ok(r.obj, Some([k \in 1..Len(d) |-> DeltaPerc(o, d[k])]))

CH_Accessors ==
    {"is_valid", "get_continuous_timeline", "get_continuous_levels",
     "get_continuous_fill_perc", "get_per_hour_timeline", "get_per_hour_deltas",
     "get_per_hour_deltas_perc", "get_per_day_timeline", "get_per_day_deltas",
     "get_per_day_deltas_perc"}

CH_call(a, o) ==
    CASE a = "is_valid" -> CH_is_valid(o)
      [] a = "get_continuous_timeline" -> CH_get_continuous_timeline(o)
      [] a = "get_continuous_levels" -> CH_get_continuous_levels(o)
      [] a = "get_continuous_fill_perc" -> CH_get_continuous_fill_perc(o)
      [] a = "get_per_hour_timeline" -> CH_get_per_hour_timeline(o)
      [] a = "get_per_hour_deltas" -> CH_get_per_hour_deltas(o)
      [] a = "get_per_hour_deltas_perc" -> CH_get_per_hour_deltas_perc(o)
      [] a = "get_per_day_timeline" -> CH_get_per_day_timeline(o)
      [] a = "get_per_day_deltas" -> CH_get_per_day_deltas(o)
      [] a = "get_per_day_deltas_perc" -> CH_get_per_day_deltas_perc(o)

---------------------------------------------------------------------------
(* RainLastHours *)

\* strftime('%Y%m%d%H'): the calendar hour of an instant
RainKey(t) == HourStart(t)

\* lines 373-374
Rain_timeline(the_date, hours_in_the_past) ==
    [k \in 1..hours_in_the_past |->
        HourStart(the_date) + (k - hours_in_the_past) * SECONDS_PER_HOUR]

\* lines 376-379, for impulses whose hour has a mark
Rain_counts(records, timeline) ==
    [k \in 1..Len(timeline) |->
        Cardinality({j \in 1..Len(records) : RainKey(records[j]) = timeline[k]})]

\* line 378: an impulse of an hour without mark is not in the dictionary
HasUnknownHour(records, timeline) ==
    \E j \in 1..Len(records) :
        \A k \in 1..Len(timeline) : RainKey(records[j]) # timeline[k]

\* __init__: the instance, or the exception the constructor ended with
Rain_new(records, the_date, hours_in_the_past) ==
    IF HasUnknownHour(records, Rain_timeline(the_date, hours_in_the_past))
    THEN [obj |-> None, exc |-> "KeyError"]
    ELSE [ obj |-> [ records |-> records,
                     the_date |-> the_date,
                     hours_in_the_past |-> hours_in_the_past,
                     timeline |-> Rain_timeline(the_date, hours_in_the_past),
                     counts |-> Rain_counts(records,
                                    Rain_timeline(the_date, hours_in_the_past)) ],
           exc |-> "none" ]

\* mm_per_impulse is a float <<n, d>>
Rain_get_percipitation_per_hour_mm(o, mm_per_impulse) ==
    [k \in 1..Len(o.counts) |-> Rat(mm_per_impulse[1] * o.counts[k], mm_per_impulse[2])]

Rain_get_percipitation_per_hour_timeline(o) == o.timeline

Rain_get_percipitation_mm(o, mm_per_impulse) ==
    Rat(mm_per_impulse[1] * SumSeq(o.counts), mm_per_impulse[2])

\* no concurrent caller and no poller thread
NoThreads == pb = None /\ pg = None /\ poller = None

\* no RainLastHours was built
NoRain == rain_in = None /\ rain = None /\ rain_ret = None

---------------------------------------------------------------------------
(* The temperature chronology as a state machine: an instance is built     *)
(* from an ordered reading list and a target date, and then any accessor   *)
(* may be called, any number of times and in any order.                    *)

MaxRecords == 2
MaxInitRuns == 2

\* instants of the modelled day the readings are drawn from: 06:00 (night),
\* sunrise itself (night), 07:50 and 08:10 (day), 21:00 (night)
TempTimes == {21600, SUNRISE, 28200, 29400, 75600}
TempValues == {10, 14}
\* target dates: 01:00 (before sunrise), 08:20 (day), 23:00 (last hour)
TheDates == {3600, 30000, 82800}

TempReading == [timestamp : TempTimes, temperature : TempValues]

\* reading lists as the repository delivers them: ascending by timestamp
TempReadingLists ==
    {s \in UNION {[1..n -> TempReading] : n \in 0..MaxRecords} :
        \A i \in 1..(Len(s) - 1) : s[i].timestamp <= s[i + 1].timestamp}

HasEqualTimestamps(s) ==
    \E i, j \in 1..Len(s) : i < j /\ s[i].timestamp = s[j].timestamp

\* AnalysisDataSource.temperature_daily_chronology always passes the_date.
\* The old linregress ("nan") is tried on the lists that hold two readings
\* of one instant.
\* the documented two-point cases, target date 08:20: readings at 07:50 / 15.0
\* and 08:10 / 17.0; readings at 06:00 / 10.0 and 08:00 / 14.0
TwoPointExample ==
    [ records |-> << [timestamp |-> 28200, temperature |-> 15],
                     [timestamp |-> 29400, temperature |-> 17] >>,
      the_date |-> 30000, is_for_today |-> FALSE, identical_x |-> "ValueError" ]
AtMarkExample ==
    [ records |-> << [timestamp |-> 21600, temperature |-> 10],
                     [timestamp |-> 28800, temperature |-> 14] >>,
      the_date |-> 30000, is_for_today |-> FALSE, identical_x |-> "ValueError" ]

TdcInputs ==
    {TwoPointExample, AtMarkExample} \cup
    {i \in [records : TempReadingLists, the_date : TheDates,
            is_for_today : BOOLEAN, identical_x : {"ValueError", "nan"}] :
        i.identical_x = "nan" => HasEqualTimestamps(i.records)}

Result(r) == [ret |-> r.ret, exc |-> r.exc]

InitTDC ==
    /\ tdc_in \in TdcInputs
    /\ tdc = TDC_new(tdc_in.records, tdc_in.the_date, tdc_in.is_for_today,
                     tdc_in.identical_x)
    /\ ctor_exc = "none"
    /\ watched = "none"
    /\ first_ret = None
    /\ last_ret = None
    /\ ch_in = None
    /\ ch = None
    /\ NoRain
    /\ graph = None
    /\ NoThreads

\* one call of accessor a on the instance; r is what the call yields
TdcStep(a, r) ==
       /\ tdc # None
       /\ r.obj.n_init_raw <= MaxInitRuns
       /\ r.obj.n_init_ph <= MaxInitRuns
       /\ tdc' = r.obj
       /\ IF a = watched
          THEN /\ first_ret' = IF IsNone(first_ret) THEN Some(Result(r)) ELSE first_ret
               /\ last_ret' = Some(Result(r))
          ELSE UNCHANGED <<first_ret, last_ret>>
       /\ UNCHANGED <<tdc_in, ch_in, ch, ctor_exc, watched, rain_in, rain, rain_ret, graph,
          pb, pg, poller>>

\* the accessors may be called in any order, any number of times
NextTDC ==
    \/ TdcStep("is_valid", TDC_is_valid(tdc))
    \/ TdcStep("has_day_data", TDC_has_day_data(tdc))
    \/ TdcStep("has_night_data", TDC_has_night_data(tdc))
    \/ TdcStep("get_raw_timeline", TDC_get_raw_timeline(tdc))
    \/ TdcStep("get_raw_temperatures", TDC_get_raw_temperatures(tdc))
    \/ TdcStep("get_raw_last", TDC_get_raw_last(tdc))
    \/ TdcStep("get_perhour_timeline", TDC_get_perhour_timeline(tdc))
    \/ TdcStep("get_perhour_temperatures", TDC_get_perhour_temperatures(tdc))
    \/ TdcStep("get_perhour_last", TDC_get_perhour_last(tdc))
    \/ TdcStep("get_perhour_min_temperatures", TDC_get_perhour_min_temperatures(tdc))
    \/ TdcStep("get_perhour_max_temperatures", TDC_get_perhour_max_temperatures(tdc))
    \/ TdcStep("get_min_daily", TDC_get_min_daily(tdc))
    \/ TdcStep("get_max_daily", TDC_get_max_daily(tdc))
    \/ TdcStep("get_min_day", TDC_get_min_day(tdc))
    \/ TdcStep("get_max_day", TDC_get_max_day(tdc))
    \/ TdcStep("get_min_night", TDC_get_min_night(tdc))
    \/ TdcStep("get_max_night", TDC_get_max_night(tdc))
    \/ TdcStep("get_avg_daily", TDC_get_avg_daily(tdc))
    \/ TdcStep("get_avg_day", TDC_get_avg_day(tdc))
    \/ TdcStep("get_avg_night", TDC_get_avg_night(tdc))
    \/ TdcStep("get_lower_errors", TDC_get_lower_errors(tdc))
    \/ TdcStep("get_upper_errors", TDC_get_upper_errors(tdc))

SpecTDC == InitTDC /\ [][NextTDC]_vars

---------------------------------------------------------------------------
(* The same machine with one accessor watched: the result of its first and *)
(* of its latest call are kept, so that two calls can be compared.         *)

\* the chronologies watched: those of a day in progress
WatchedInputs == {i \in TdcInputs : i.the_date = 30000}

InitWatched ==
    /\ tdc_in \in WatchedInputs
    /\ tdc = TDC_new(tdc_in.records, tdc_in.the_date, tdc_in.is_for_today,
                     tdc_in.identical_x)
    /\ ctor_exc = "none"
    /\ watched \in TDC_Accessors
    /\ first_ret = None
    /\ last_ret = None
    /\ ch_in = None
    /\ ch = None
    /\ NoRain
    /\ graph = None
    /\ NoThreads

SpecWatched == InitWatched /\ [][NextTDC]_vars

---------------------------------------------------------------------------
(* The cesspit history as a state machine: the constructor runs on the     *)
(* window readings, the optional adherent readings and the calibration,    *)
(* and then any accessor may be called on the instance it returned.        *)

MaxWindow == 2

\* window instants: 09:30 and 10:00:00 of the first day, 00:00:00 and 01:00
\* of the second
CesspitTimes == {120600, 122400, 172800, 176400}
CesspitLevels == {400, 700, 950}
\* the adherent readings: 23:30 of the day before, 02:00 of the second day
PrevReadings == [timestamp : {84600}, level : {400, 800}]
NextReadings == [timestamp : {180000}, level : {400, 800}]
\* (tank_full_mm, tank_empty_mm) as InfoApp passes them
TankConfigs ==
    { <<None, None>>, <<Some(500), None>>, <<Some(500), Some(1000)>>,
      <<Some(500), Some(500)>>, <<Some(1000), Some(500)>> }

TankLevel == [timestamp : CesspitTimes, level : CesspitLevels]

\* window readings as the repository delivers them: ascending, one per instant
TankLevelLists ==
    {s \in UNION {[1..n -> TankLevel] : n \in 0..MaxWindow} :
        \A i \in 1..(Len(s) - 1) : s[i].timestamp < s[i + 1].timestamp}

Optional(S) == {None} \cup {Some(x) : x \in S}

\* the documented removal example: levels 800, 750, 700, 950, 900
RemovalExample ==
    [ records |-> << [timestamp |-> 120600, level |-> 800],
                     [timestamp |-> 122400, level |-> 750],
                     [timestamp |-> 126000, level |-> 700],
                     [timestamp |-> 172800, level |-> 950],
                     [timestamp |-> 176400, level |-> 900] >>,
      prev |-> None, next |-> None,
      tank_full_mm |-> Some(500), tank_empty_mm |-> Some(1000) ]

CesspitInputs ==
    {RemovalExample} \cup
    { [records |-> s, prev |-> p, next |-> x,
       tank_full_mm |-> t[1], tank_empty_mm |-> t[2]] :
        s \in TankLevelLists, p \in Optional(PrevReadings),
        x \in Optional(NextReadings), t \in TankConfigs }

InitCH ==
    /\ ch_in \in CesspitInputs
    /\ LET c == CH_new(ch_in.records, ch_in.prev, ch_in.next,
                       ch_in.tank_full_mm, ch_in.tank_empty_mm)
       IN ch = c.obj /\ ctor_exc = c.exc
    /\ watched = "none"
    /\ first_ret = None
    /\ last_ret = None
    /\ tdc_in = None
    /\ tdc = None
    /\ NoRain
    /\ graph = None
    /\ NoThreads

\* one call of an accessor on the instance the constructor returned; r is
\* what the call yields
ChStep(r) ==
       /\ ch # None
       /\ r.obj.n_init_ph <= MaxInitRuns
       /\ r.obj.n_init_pd <= MaxInitRuns
       /\ ch' = r.obj
       /\ UNCHANGED <<tdc_in, tdc, ch_in, ctor_exc, watched, first_ret, last_ret,
                      rain_in, rain, rain_ret, graph,
          pb, pg, poller>>

NextCH ==
    \/ ChStep(CH_is_valid(ch))
    \/ ChStep(CH_get_continuous_timeline(ch))
    \/ ChStep(CH_get_continuous_levels(ch))
    \/ ChStep(CH_get_continuous_fill_perc(ch))
    \/ ChStep(CH_get_per_hour_timeline(ch))
    \/ ChStep(CH_get_per_hour_deltas(ch))
    \/ ChStep(CH_get_per_hour_deltas_perc(ch))
    \/ ChStep(CH_get_per_day_timeline(ch))
    \/ ChStep(CH_get_per_day_deltas(ch))
    \/ ChStep(CH_get_per_day_deltas_perc(ch))

SpecCH == InitCH /\ [][NextCH]_vars

---------------------------------------------------------------------------
(* The rain statistics as a state machine: the constructor runs on the     *)
(* impulses the repository delivered for the last hours before the_date,   *)
(* and then any accessor may be called on the instance.                    *)

MaxImpulses == 2

\* target dates 00:30, 10:00:00 and 10:30; impulses at 00:15, 07:45, 08:03,
\* 09:00:00, 10:01 and 10:30
RainDates == {1800, 36000, 37800}
RainTimes == {900, 27900, 29000, 32400, 36100, 37800}
RainHours == {1, 2, 3}
MmPerImpulse == {<<1, 2>>, <<2, 1>>}

\* impulse lists in ascending order
ImpulseLists ==
    {s \in UNION {[1..n -> RainTimes] : n \in 0..MaxImpulses} :
        \A i \in 1..(Len(s) - 1) : s[i] <= s[i + 1]}

\* AnalysisDataSource.rain_observations: the impulses of the last
\* hours_in_the_past hours before the_date
RainInputs ==
    {i \in [records : ImpulseLists, the_date : RainDates, hours_in_the_past : RainHours] :
        \A j \in 1..Len(i.records) :
            /\ i.the_date - i.hours_in_the_past * SECONDS_PER_HOUR <= i.records[j]
            /\ i.records[j] <= i.the_date}

InitRain ==
    /\ rain_in \in RainInputs
    /\ rain = Rain_new(rain_in.records, rain_in.the_date, rain_in.hours_in_the_past).obj
    /\ ctor_exc = Rain_new(rain_in.records, rain_in.the_date,
                           rain_in.hours_in_the_past).exc
    /\ rain_ret = None
    /\ watched = "none"
    /\ first_ret = None
    /\ last_ret = None
    /\ tdc_in = None
    /\ tdc = None
    /\ ch_in = None
    /\ ch = None
    /\ graph = None
    /\ NoThreads

\* one call on the instance, returning v
RainStep(v) ==
    /\ rain # None
    /\ rain_ret' = Some(v)
    /\ UNCHANGED <<tdc_in, tdc, ch_in, ch, ctor_exc, watched, first_ret, last_ret,
                   rain_in, rain, graph, pb, pg, poller>>

NextRain ==
    \/ \E mm \in MmPerImpulse : RainStep(Rain_get_percipitation_per_hour_mm(rain, mm))
    \/ RainStep(Rain_get_percipitation_per_hour_timeline(rain))
    \/ \E mm \in MmPerImpulse : RainStep(Rain_get_percipitation_mm(rain, mm))

SpecRain == InitRain /\ [][NextRain]_vars

---------------------------------------------------------------------------
(* The graph classes built on a data object.  The drawing itself is left   *)
(* to matplotlib; the model keeps the calls on the data object, the        *)
(* exceptions of the built-in functions applied to what they return, and   *)
(* what plot_to_svg hands back.                                            *)

TemperatureGraphs == {"DailyTemperatureGraph"}
PerHourGraphs == {"PerHourCesspitGraph", "Last24hCesspitGraph", "DailyCesspitGraph"}
PerDayGraphs == {"PerDayCesspitGraph"}
GraphClasses == TemperatureGraphs \cup PerHourGraphs \cup PerDayGraphs

\* Graph._empty_svg and the figure savefig writes
EmptySvg == "<svg width=1pt height=1pt viewBox=0 0 1 1></svg>"
FigureSvg == "<svg>figure</svg>"

\* str(bool)
PyBool(b) == IF b THEN "True" ELSE "False"

\* has_valid_data of the class: DailyTemperatureGraph and PerHourCesspitGraph
\* (and its subclasses) override it, PerDayCesspitGraph inherits Graph's,
\* which returns (not raises) a NotImplementedError instance
Graph_has_valid_data(cls, data) ==
    IF cls \in TemperatureGraphs THEN PyBool(TDC_is_valid_body(data))
    ELSE IF cls \in PerHourGraphs THEN PyBool(CH_is_valid_body(data))
    ELSE "NotImplementedError()"

\* "not x" of what has_valid_data returned: an exception instance is truthy
PyNot(x) == x = "False"

\* the next call on the data object, unless an earlier one raised
ThenTemperatures(r) == IF r.exc # "none" THEN r ELSE TDC_get_perhour_temperatures(r.obj)
ThenLowerErrors(r) == IF r.exc # "none" THEN r ELSE TDC_get_lower_errors(r.obj)
ThenUpperErrors(r) == IF r.exc # "none" THEN r ELSE TDC_get_upper_errors(r.obj)
ThenMinTemperatures(r) ==
    IF r.exc # "none" THEN r ELSE TDC_get_perhour_min_temperatures(r.obj)
ThenMaxTemperatures(r) ==
    IF r.exc # "none" THEN r ELSE TDC_get_perhour_max_temperatures(r.obj)
ThenTimeline(r) == IF r.exc # "none" THEN r ELSE TDC_get_perhour_timeline(r.obj)
ThenMinDaily(r) == IF r.exc # "none" THEN r ELSE TDC_get_min_daily(r.obj)
ThenMaxDaily(r) == IF r.exc # "none" THEN r ELSE TDC_get_max_daily(r.obj)
ThenHourDeltasPerc(r) == IF r.exc # "none" THEN r ELSE CH_get_per_hour_deltas_perc(r.obj)
ThenDayDeltasPerc(r) == IF r.exc # "none" THEN r ELSE CH_get_per_day_deltas_perc(r.obj)
ThenContinuousTimeline(r) ==
    IF r.exc # "none" THEN r ELSE CH_get_continuous_timeline(r.obj)
ThenContinuousFillPerc(r) ==
    IF r.exc # "none" THEN r ELSE CH_get_continuous_fill_perc(r.obj)

\* DailyTemperatureGraph.prepare_plot, the curve of the chosen style
TemperatureCurve(style, o) ==
    IF style = "errorbars"
    THEN ThenUpperErrors(ThenLowerErrors(ThenTemperatures(TDC_get_perhour_timeline(o))))
    ELSE IF style = "fillbetween"
    THEN ThenTemperatures(ThenTimeline(ThenMaxTemperatures(ThenMinTemperatures(
             TDC_get_perhour_timeline(o)))))
    ELSE ThenTemperatures(TDC_get_perhour_timeline(o))

\* f'{_min[1]:.1f}' of the tuple the call returned
FormatTemp(r) ==
    IF r.exc # "none" THEN r
    ELSE IF IsNone(Val(r.ret)[2]) THEN Raise(r.obj, "TypeError")
    ELSE r

TemperatureGraph_prepare_plot(style, o) ==
    FormatTemp(ThenMaxDaily(FormatTemp(ThenMinDaily(TemperatureCurve(style, o)))))

\* smart_fill_range and smart_delta_range: min and max of an empty list
SmartRanges(r, deltas_field) ==
    IF r.exc # "none" THEN r
    ELSE IF Len(Val(r.ret)) = 0 \/ \E k \in 1..Len(Val(r.ret)) : Len(Val(r.ret)[k]) = 0
    THEN Raise(r.obj, "ValueError")
    ELSE IF Len(r.obj[deltas_field]) = 0 THEN Raise(r.obj, "ValueError")
    ELSE r

PerHourGraph_prepare_plot(o) ==
    SmartRanges(ThenContinuousFillPerc(ThenContinuousTimeline(ThenHourDeltasPerc(
        CH_get_per_hour_timeline(o)))), "deltas_ph")

PerDayGraph_prepare_plot(o) ==
    SmartRanges(ThenContinuousFillPerc(ThenContinuousTimeline(ThenDayDeltasPerc(
        CH_get_per_day_timeline(o)))), "deltas_pd")

Graph_prepare_plot(g, data) ==
    IF g.cls \in TemperatureGraphs THEN TemperatureGraph_prepare_plot(g.style, data)
    ELSE IF g.cls \in PerHourGraphs THEN PerHourGraph_prepare_plot(data)
    ELSE PerDayGraph_prepare_plot(data)

\* plot_to_svg after prepare_plot ran: the figure, or prepare_plot's exception
Savefig(r) ==
    [ obj |-> r.obj,
      ret |-> IF r.exc = "none" THEN Some(FigureSvg) ELSE None,
      exc |-> r.exc,
      prepared |-> 1 ]

\* Graph.plot_to_svg
Graph_plot_to_svg(g, data) ==
    IF PyNot(Graph_has_valid_data(g.cls, data))
    THEN [obj |-> data, ret |-> Some(EmptySvg), exc |-> "none", prepared |-> 0]
    ELSE Savefig(Graph_prepare_plot(g, data))

\* the data object of the graph
GraphData(g) == IF g.cls \in TemperatureGraphs THEN tdc ELSE ch

\* how often plot_to_svg is called on one graph
MaxPlots == 2

GraphStyles == {"errorbars", "fillbetween", "line"}
\* the current temperature handed to the graph of today, if it was read
LastTemps == {None, Some(<<30000, 12>>)}

\* DailyTemperatureGraph.__init__, line 69: the last temperature, or the
\* exception of get_perhour_last
TemperatureGraph_last_temp(last_temp, o) ==
    IF ~IsNone(last_temp) THEN Ok(o, last_temp)
    ELSE IF TDC_is_valid_body(o) THEN TDC_get_perhour_last(o)
    ELSE Ok(o, None)

NewGraph(cls, style, last_temp) ==
    [ cls |-> cls, style |-> style, last_temp |-> last_temp,
      \* instrumentation: calls of plot_to_svg and of prepare_plot, and what
      \* the latest plot_to_svg returned or raised
      n_plots |-> 0, n_prepare |-> 0, ret |-> None, exc |-> "none" ]

InitTemperatureGraph ==
    /\ tdc_in \in TdcInputs
    /\ \E style \in GraphStyles, last_temp \in LastTemps :
          LET r == TemperatureGraph_last_temp(last_temp,
                       TDC_new(tdc_in.records, tdc_in.the_date, tdc_in.is_for_today,
                               tdc_in.identical_x))
          IN /\ tdc = r.obj
             /\ ctor_exc = r.exc
             /\ graph = IF r.exc = "none"
                        THEN Some(NewGraph("DailyTemperatureGraph", style, r.ret))
                        ELSE None
    /\ ch_in = None
    /\ ch = None

\* Last24hCesspitGraph and PerDayCesspitGraph ask for no adherent records
WithAdherent == {"PerHourCesspitGraph", "DailyCesspitGraph"}

InitCesspitGraph ==
    /\ ch_in \in CesspitInputs
    /\ \E cls \in PerHourGraphs \cup PerDayGraphs :
          /\ cls \notin WithAdherent => IsNone(ch_in.prev) /\ IsNone(ch_in.next)
          /\ LET c == CH_new(ch_in.records, ch_in.prev, ch_in.next,
                             ch_in.tank_full_mm, ch_in.tank_empty_mm)
             IN /\ ch = c.obj
                /\ ctor_exc = c.exc
                /\ graph = IF c.exc = "none" THEN Some(NewGraph(cls, "", None)) ELSE None
    /\ tdc_in = None
    /\ tdc = None

InitGraph ==
    /\ InitTemperatureGraph \/ InitCesspitGraph
    /\ watched = "none"
    /\ first_ret = None
    /\ last_ret = None
    /\ NoRain
    /\ NoThreads

\* one call of plot_to_svg on the graph
PlotToSvg ==
    /\ graph # None
    /\ Val(graph).n_plots < MaxPlots
    /\ LET g == Val(graph)
           r == Graph_plot_to_svg(g, GraphData(g))
       IN /\ graph' = Some([g EXCEPT !.n_plots = @ + 1,
                                     !.n_prepare = @ + r.prepared,
                                     !.ret = r.ret,
                                     !.exc = r.exc])
          /\ IF g.cls \in TemperatureGraphs
             THEN tdc' = r.obj /\ ch' = ch
             ELSE ch' = r.obj /\ tdc' = tdc
    /\ UNCHANGED <<tdc_in, ch_in, ctor_exc, watched, first_ret, last_ret,
                   rain_in, rain, rain_ret, pb, pg, poller>>

NextGraph == PlotToSvg

SpecGraph == InitGraph /\ [][NextGraph]_vars

---------------------------------------------------------------------------
(* Properties of TemperatureDailyChronology                                *)

\* C1: idempotence - on one instance any two calls of the same accessor that
\* return give identical values, whatever other accessors were called
\* before or in between (here: the first and the latest call of the
\* watched accessor).
C1_Idempotent ==
    (/\ ~IsNone(first_ret)
     /\ Val(first_ret).exc = "none"
     /\ Val(last_ret).exc = "none")
        => Val(last_ret).ret = Val(first_ret).ret

\* C2: the input readings are immutable - after any sequence of accessor
\* calls every reading of the supplied list has the timestamp and the
\* temperature it was supplied with.
C2_InputUnchanged == tdc.raw_records = tdc_in.records

\* C3: on an object built from an empty reading list every get_* accessor
\* returns None, (None, None) or an empty list, and none raises.
C3_EmptyNeverRaises ==
    tdc_in.records = <<>> =>
        /\ \A a \in TDC_ListAccessors :
              /\ TDC_call(a, tdc).exc = "none"
              /\ Len(Val(TDC_call(a, tdc).ret)) = 0
        /\ \A a \in TDC_StatTupleAccessors \cup TDC_LastAccessors :
              /\ TDC_call(a, tdc).exc = "none"
              /\ IsNone(Val(TDC_call(a, tdc).ret)[1])
              /\ IsNone(Val(TDC_call(a, tdc).ret)[2])
        /\ \A a \in TDC_StatAvgAccessors :
              /\ TDC_call(a, tdc).exc = "none"
              /\ IsNone(TDC_call(a, tdc).ret)

\* C6: for an empty reading list is_valid, has_day_data and has_night_data
\* return false, the six minimum/maximum accessors return (None, None) and
\* the three averages return None; for a non-empty list is_valid returns
\* true.  In every state, that is after any calls made before.
C6_EmptyIsInvalid ==
    /\ tdc_in.records = <<>> =>
        /\ \A a \in TDC_Predicates :
              TDC_call(a, tdc).exc = "none" /\ TDC_call(a, tdc).ret = Some(FALSE)
        /\ \A a \in TDC_StatTupleAccessors :
              TDC_call(a, tdc).exc = "none" /\ TDC_call(a, tdc).ret = Some(NoneTuple)
        /\ \A a \in TDC_StatAvgAccessors :
              TDC_call(a, tdc).exc = "none" /\ TDC_call(a, tdc).ret = None
    /\ tdc_in.records # <<>> =>
        /\ TDC_is_valid(tdc).exc = "none"
        /\ TDC_is_valid(tdc).ret = Some(TRUE)

\* an empty chronology on which statistics accessors have already run
C6_Witness ==
    /\ tdc_in.records = <<>>
    /\ tdc.n_init_raw >= 2
    /\ TDC_get_avg_day(tdc).ret = None
    /\ TDC_has_night_data(tdc).ret = Some(FALSE)

\* C7: each lazy initialisation (_init_raw, _init_ph) runs at most once on an
\* instance, over any sequence of accessor calls and for every input.
C7_InitAtMostOnce == tdc.n_init_raw <= 1 /\ tdc.n_init_ph <= 1

---------------------------------------------------------------------------
(* Properties of CesspitHistory                                            *)

\* both tank values present and tank_full_mm < tank_empty_mm
CalibrationOk(full, empty) ==
    ~IsNone(full) /\ ~IsNone(empty) /\ Val(full) < Val(empty)

\* C4: invalid tank calibration never raises - with a non-empty reading list
\* and a tank value missing, or tank_full_mm >= tank_empty_mm, the
\* constructor, is_valid, get_per_hour_deltas and get_per_day_deltas complete
\* without an exception, and is_valid returns false.
C4_CalibrationNeverRaises ==
    (/\ Len(ch_in.records) > 0
     /\ ~CalibrationOk(ch_in.tank_full_mm, ch_in.tank_empty_mm))
        => /\ ctor_exc = "none"
           /\ CH_is_valid(ch).exc = "none"
           /\ CH_is_valid(ch).ret = Some(FALSE)
           /\ CH_get_per_hour_deltas(ch).exc = "none"
           /\ CH_get_per_day_deltas(ch).exc = "none"

\* C5 as stated: is_valid returns true exactly when the reading list of the
\* window is non-empty and the calibration is good, so a history with an
\* empty window is invalid also when an adherent reading was supplied.
C5_ValidIffWindow ==
    ctor_exc = "none" =>
        (CH_is_valid(ch).ret = Some(TRUE)
            <=> /\ Len(ch_in.records) > 0
                /\ CalibrationOk(ch_in.tank_full_mm, ch_in.tank_empty_mm))

\* C5, amended: is_valid returns true exactly when the spliced reading list
\* (the readings of the window and the adherent readings supplied) is
\* non-empty and the calibration is good; it returns false otherwise, and
\* never raises.
C5_ValidIffSpliced ==
    ctor_exc = "none" =>
        /\ CH_is_valid(ch).exc = "none"
        /\ CH_is_valid(ch).ret \in {Some(TRUE), Some(FALSE)}
        /\ CH_is_valid(ch).ret = Some(TRUE)
            <=> /\ \/ Len(ch_in.records) > 0
                   \/ ~IsNone(ch_in.prev)
                   \/ ~IsNone(ch_in.next)
                /\ CalibrationOk(ch_in.tank_full_mm, ch_in.tank_empty_mm)

\* an empty window with an adherent reading and a good calibration, found
\* valid after aggregates were computed
C5_Witness ==
    /\ ctor_exc = "none"
    /\ Len(ch_in.records) = 0
    /\ ~IsNone(ch_in.prev)
    /\ ch.n_init_ph > 0
    /\ CH_is_valid(ch).ret = Some(TRUE)

\* the call returned a list whose sum is total
SumIs(r, total) == r.exc = "none" /\ SumSeq(Val(r.ret)) = total

\* C8: clustering conserves the total - for every valid history the sum of
\* get_per_hour_deltas() and the sum of get_per_day_deltas() both equal the
\* sum of the retained delta sequence, with or without adherent readings.
C8_Conservation ==
    (ctor_exc = "none" /\ CH_is_valid_body(ch)) =>
        /\ SumIs(CH_get_per_hour_deltas(ch), SumSeq(ch.deltas))
        /\ SumIs(CH_get_per_day_deltas(ch), SumSeq(ch.deltas))

\* a valid history with adherent readings whose retained deltas fell into
\* two different hours, both aggregates computed
C8_Witness ==
    /\ ctor_exc = "none"
    /\ CH_is_valid_body(ch)
    /\ ~IsNone(ch_in.prev)
    /\ ch.n_init_ph > 0
    /\ ch.n_init_pd > 0
    /\ Len(ch.deltas) >= 2
    /\ Cardinality({k \in 1..Len(ch.deltas_ph) : ch.deltas_ph[k] > 0}) >= 2

\* the spliced level sequence and timeline of the history that was built
InputLevels ==
    SplicedLevels(ch_in.records, ch_in.prev, ch_in.next, ch_in.tank_full_mm)
InputTimeline == SplicedTimeline(ch_in.records, ch_in.prev, ch_in.next)

\* the positions i after which a new segment starts
SegmentEnds(segs) ==
    {Len(Concat(SubSeq(segs, 1, k))) : k \in 1..(Len(segs) - 1)}

\* the positions i with level[i+1] > level[i]
Rises(levels) == {i \in 1..(Len(levels) - 1) : levels[i + 1] > levels[i]}

NonIncreasing(seg) == \A i \in 1..(Len(seg) - 1) : seg[i + 1] <= seg[i]

\* the parts of C9 that do not speak of empty segments: the segments,
\* concatenated, are the spliced level sequence; a boundary lies between i
\* and i+1 exactly when the level rises there; every segment is
\* non-increasing; the timeline is split at the same positions; the
\* documented example gives [800,750,700] and [950,900]
Segmentation ==
    /\ Concat(ch.continuous_levels) = InputLevels
    /\ SegmentEnds(ch.continuous_levels) = Rises(InputLevels)
    /\ \A k \in 1..Len(ch.continuous_levels) : NonIncreasing(ch.continuous_levels[k])
    /\ Concat(ch.continuous_timelines) = InputTimeline
    /\ Len(ch.continuous_timelines) = Len(ch.continuous_levels)
    /\ \A k \in 1..Len(ch.continuous_levels) :
          Len(ch.continuous_timelines[k]) = Len(ch.continuous_levels[k])
    /\ ch_in = RemovalExample =>
          ch.continuous_levels = << <<800, 750, 700>>, <<950, 900>> >>

C10_LevelsClamped ==
    (ctor_exc = "none" /\ ~IsNone(ch.tank_full_mm)) =>
        \A k \in 1..Len(Val(CH_get_continuous_levels(ch).ret)) :
            \A j \in 1..Len(Val(CH_get_continuous_levels(ch).ret)[k]) :
                Val(CH_get_continuous_levels(ch).ret)[k][j] >= Val(ch.tank_full_mm)

---------------------------------------------------------------------------
(* Properties of the per-hour series of TemperatureDailyChronology         *)

StrictlyIncreasing(s) == \A i \in 1..(Len(s) - 1) : s[i] < s[i + 1]

\* C11: monotonic timeline - the list get_perhour_timeline() returns is
\* strictly increasing (no two equal marks) for every target date, hour 23
\* included, and every reading set.
C11_TimelineIncreasing ==
    TDC_get_perhour_timeline(tdc).exc = "none" =>
        StrictlyIncreasing(Val(TDC_get_perhour_timeline(tdc).ret))

\* C12: aligned per-hour output - whenever the six per-hour accessors
\* return, the timeline, the temperatures, the lower and upper errors and
\* the minimum and maximum temperatures have the same length (a mark without
\* observation is left out of the timeline too).
C12_PerHourAligned ==
    (\A a \in {"get_perhour_timeline", "get_perhour_temperatures",
               "get_lower_errors", "get_upper_errors",
               "get_perhour_min_temperatures", "get_perhour_max_temperatures"} :
        TDC_call(a, tdc).exc = "none")
    => \A a \in {"get_perhour_temperatures", "get_lower_errors", "get_upper_errors",
                 "get_perhour_min_temperatures", "get_perhour_max_temperatures"} :
          Len(Val(TDC_call(a, tdc).ret))
              = Len(Val(TDC_get_perhour_timeline(tdc).ret))

\* the value at x = 0 of the straight line through (x1, y1) and (x2, y2)
LineAtZero(x1, y1, x2, y2) == Rat(y1 * (x2 - x1) - x1 * (y2 - y1), x2 - x1)

\* for the mark h with the two observations obs: the line through them at h
TwoPointLine(recs, h, obs) ==
    LineAtZero(recs[obs[1]].timestamp - h, recs[obs[1]].temperature,
               recs[obs[2]].timestamp - h, recs[obs[2]].temperature)

\* the k-th estimate of instance o, when obs, the observations of the k-th
\* mark, are two readings of different instants
TwoPointMark(o, k, obs) ==
    (/\ Len(obs) = 2
     /\ o.raw_records[obs[1]].timestamp # o.raw_records[obs[2]].timestamp)
        => Val(o.ph_temperatures)[k]
              = TwoPointLine(o.raw_records, Val(o.ph_timeline)[k], obs)

\* o is the instance after a run of _init_ph
TwoPointExact(o) ==
    /\ \A k \in 1..Len(Val(o.ph_temperatures)) :
          TwoPointMark(o, k, Observations(o, Val(o.ph_timeline)[k]))
    /\ (tdc_in = TwoPointExample /\ o.raw_records = tdc_in.records) =>
          /\ Val(o.ph_timeline)[9] = 28800
          /\ Val(o.ph_temperatures)[9] = <<16, 1>>
          /\ Val(o.ph_errors_lower)[9] = <<1, 1>>
          /\ Val(o.ph_errors_upper)[9] = <<1, 1>>
    /\ (tdc_in = AtMarkExample /\ o.raw_records = tdc_in.records) =>
          /\ Observations(o, 28800) = <<1, 2>>
          /\ Val(o.ph_temperatures)[9] = <<14, 1>>

\* C13: two-point exactness - for an hour mark whose observation set is two
\* readings with different offsets the estimate is the value at offset 0 of
\* the line through them; -600s/15.0 and +600s/17.0 give 16.0 with both
\* errors 1.0; 06:00/10.0 and 08:00/14.0 give 14.0 for the mark of hour 8.
\* Stated of a run of _init_ph on the readings as they are in any state.
C13_TwoPointExact ==
    Len(tdc.raw_records) > 0 => TwoPointExact(TDC_init_ph(tdc).obj)

\* the per-hour series of the first documented case was computed and read
C13_Witness ==
    /\ tdc_in = TwoPointExample
    /\ tdc.n_init_ph = 1
    /\ TDC_get_perhour_temperatures(tdc).exc = "none"
    /\ Val(TDC_get_perhour_temperatures(tdc).ret)[9] = <<16, 1>>
    /\ Val(TDC_get_upper_errors(tdc).ret)[9] = <<1, 1>>

\* m is the least / the greatest temperature of the observations obs
IsMinTemp(recs, obs, m) == \A j \in 1..Len(obs) : recs[obs[j]].temperature >= m
IsMaxTemp(recs, obs, m) == \A j \in 1..Len(obs) : recs[obs[j]].temperature <= m

\* |q - m| for a float q = <<n, d>> (NaN when q is NaN) and an integer m
FloatDistance(q, m) ==
    IF q[2] = 0 THEN q
    ELSE Rat(IF q[1] >= m * q[2] THEN q[1] - m * q[2] ELSE m * q[2] - q[1], q[2])

\* the k-th estimate and errors of instance o; obs are the observations of
\* the k-th mark
ErrorsOfMark(o, k, obs) ==
    /\ Len(obs) = 1 =>
          /\ Val(o.ph_temperatures)[k] = <<o.raw_records[obs[1]].temperature, 1>>
          /\ Val(o.ph_errors_lower)[k] = <<0, 1>>
          /\ Val(o.ph_errors_upper)[k] = <<0, 1>>
    /\ \A j \in 1..Len(obs) :
          /\ IsMinTemp(o.raw_records, obs, o.raw_records[obs[j]].temperature) =>
                Val(o.ph_errors_lower)[k]
                    = FloatDistance(Val(o.ph_temperatures)[k],
                                    o.raw_records[obs[j]].temperature)
          /\ IsMaxTemp(o.raw_records, obs, o.raw_records[obs[j]].temperature) =>
                Val(o.ph_errors_upper)[k]
                    = FloatDistance(Val(o.ph_temperatures)[k],
                                    o.raw_records[obs[j]].temperature)
    /\ Val(o.ph_errors_lower)[k][1] >= 0
    /\ Val(o.ph_errors_upper)[k][1] >= 0

\* o is the instance after a run of _init_ph
ErrorBounds(o) ==
    /\ Len(Val(o.ph_errors_lower)) = Len(Val(o.ph_temperatures))
    /\ Len(Val(o.ph_errors_upper)) = Len(Val(o.ph_temperatures))
    /\ \A k \in 1..Len(Val(o.ph_temperatures)) :
          /\ Len(Observations(o, Val(o.ph_timeline)[k])) > 0
          /\ ErrorsOfMark(o, k, Observations(o, Val(o.ph_timeline)[k]))

\* C14: interpolation exactness and error bounds - for an hour mark with one
\* observation the estimate is that observation's temperature and both
\* errors are 0; for every mark lower error = |estimate - min observation
\* temperature| and upper error = |estimate - max observation temperature|,
\* neither ever negative.  Stated of a run of _init_ph in any state.
C14_ErrorBounds == ErrorBounds(TDC_init_ph(tdc).obj)

\* a computed series with a mark of one observation (errors 0) and a mark
\* of two observations (errors above 0)
C14_Witness ==
    /\ Len(tdc.raw_records) = 2
    /\ tdc.n_init_ph >= 1
    /\ TDC_get_lower_errors(tdc).exc = "none"
    /\ \E k \in 1..Len(Val(tdc.ph_errors_lower)) :
          /\ Len(Observations(tdc, Val(tdc.ph_timeline)[k])) = 1
          /\ Val(TDC_get_lower_errors(tdc).ret)[k] = <<0, 1>>
    /\ \E k \in 1..Len(Val(tdc.ph_errors_lower)) :
          /\ Val(TDC_get_lower_errors(tdc).ret)[k][1] > 0
          /\ Val(TDC_get_upper_errors(tdc).ret)[k][1] > 0

\* the observations obs are two or more readings of one instant
SameInstant(recs, obs) ==
    /\ Len(obs) >= 2
    /\ \A i, j \in 1..Len(obs) : recs[obs[i]].timestamp = recs[obs[j]].timestamp

\* the k-th estimate of instance o is a number, and the mean of the
\* observations' temperatures when they are readings of one instant
MeanWhenDegenerate(o, k, obs) ==
    /\ ~IsNaN(Val(o.ph_temperatures)[k])
    /\ SameInstant(o.raw_records, obs) =>
          Val(o.ph_temperatures)[k]
              = Rat(SumSeq([j \in 1..Len(obs) |-> o.raw_records[obs[j]].temperature]),
                    Len(obs))

\* r is what a run of _init_ph yields
NoNumericalError(r) ==
    /\ r.exc = "none"
    /\ \A k \in 1..Len(Val(r.obj.ph_temperatures)) :
          MeanWhenDegenerate(r.obj, k, Observations(r.obj, Val(r.obj.ph_timeline)[k]))

\* C15: degenerate regression fallback - when the observations of an hour
\* mark are two or more readings of the same instant, _init_ph neither
\* raises nor yields a non-number, and the estimate of that mark is the
\* arithmetic mean of their temperatures.
C15_DegenerateFallback == NoNumericalError(TDC_init_ph(tdc))

---------------------------------------------------------------------------
(* Properties of the day / night statistics                                *)

\* the partition _init_raw makes of the readings as they were supplied
InputPartition ==
    RawLoop(TDC_new(tdc_in.records, tdc_in.the_date, tdc_in.is_for_today,
                    tdc_in.identical_x))

InSeq(x, sq) == \E j \in 1..Len(sq) : sq[j] = x

\* every reading is in exactly one of day and night, in day iff its
\* timestamp is strictly between sunrise and sunset
PartitionComplete(w, recs) ==
    /\ Len(w.day) + Len(w.night) = Len(recs)
    /\ \A k \in 1..Len(recs) :
          /\ InSeq(k, w.day) # InSeq(k, w.night)
          /\ InSeq(k, w.day) <=> /\ w.obj.sunrise < recs[k].timestamp
                                 /\ recs[k].timestamp < w.obj.sunset

\* minimum, maximum and mean stored in o are those of the readings part, when
\* there are any
StatsOver(o, part, minref, maxref, avg) ==
    Len(part) > 0 =>
        /\ InSeq(minref, part)
        /\ InSeq(maxref, part)
        /\ \A j \in 1..Len(part) :
              /\ o.raw_records[minref].temperature <= o.raw_records[part[j]].temperature
              /\ o.raw_records[maxref].temperature >= o.raw_records[part[j]].temperature
        /\ avg = Some(Rat(SumSeq([j \in 1..Len(part) |->
                                    o.raw_records[part[j]].temperature]),
                          Len(part)))

\* nothing is stored for an empty partition
NoneOver(part, minref, maxref, avg) ==
    Len(part) = 0 => (minref = 0 /\ maxref = 0 /\ IsNone(avg))

\* C16 as stated: every reading is in exactly one partition (day iff
\* sunrise < timestamp < sunset), the counts add up, and the day / night
\* minimum, maximum and mean are taken over exactly that partition's
\* readings - so there are none for an empty partition.
C16_StatsOnlyOverPartition ==
    /\ PartitionComplete(InputPartition, tdc_in.records)
    /\ tdc.n_init_raw >= 1 =>
          /\ StatsOver(tdc, InputPartition.day, tdc.raw_min_day, tdc.raw_max_day,
                       tdc.raw_avg_day)
          /\ StatsOver(tdc, InputPartition.night, tdc.raw_min_night,
                       tdc.raw_max_night, tdc.raw_avg_night)
          /\ NoneOver(InputPartition.day, tdc.raw_min_day, tdc.raw_max_day,
                      tdc.raw_avg_day)
          /\ NoneOver(InputPartition.night, tdc.raw_min_night, tdc.raw_max_night,
                      tdc.raw_avg_night)

\* C16, amended: the partition is complete as stated, and the minimum and
\* maximum temperature and the mean of a partition that holds readings are
\* taken over exactly that partition's readings (an empty partition may get
\* values synthesized from the other one).
C16_PartitionComplete ==
    /\ PartitionComplete(InputPartition, tdc_in.records)
    /\ tdc.n_init_raw >= 1 =>
          /\ StatsOver(tdc, InputPartition.day, tdc.raw_min_day, tdc.raw_max_day,
                       tdc.raw_avg_day)
          /\ StatsOver(tdc, InputPartition.night, tdc.raw_min_night,
                       tdc.raw_max_night, tdc.raw_avg_night)

\* statistics computed for a reading taken exactly at sunrise (night) and a
\* reading of the day
C16_Witness ==
    /\ tdc.n_init_raw >= 1
    /\ Len(tdc_in.records) = 2
    /\ tdc_in.records[1].timestamp = tdc.sunrise
    /\ Len(InputPartition.day) = 1
    /\ Len(InputPartition.night) = 1
    /\ tdc.raw_min_night = 1
    /\ tdc.raw_min_day = 2


\* the pairs (t[i+1], v[i] - v[i+1]) of the consecutive readings i, i+1 that
\* are not the end of one segment and the start of the next one, in order
SameSegmentPairs(timeline, levels, ends) ==
    LET inside == SelectSeq([i \in 1..(Len(levels) - 1) |-> i], LAMBDA i : i \notin ends)
    IN [j \in 1..Len(inside) |->
           <<timeline[inside[j] + 1], levels[inside[j]] - levels[inside[j] + 1]>>]

\* C19: the retained (timestamp, delta) sequence is exactly the pairs
\* (t[i+1], v[i] - v[i+1]) of the consecutive readings of one continuous
\* segment, in order: only the delta spanning a removal is dropped, timeline
\* and deltas have equal length and every retained delta is >= 0.
C19_RetainedDeltas ==
    ctor_exc = "none" =>
        /\ Len(ch.deltas_timeline) = Len(ch.deltas)
        /\ Zip(ch.deltas_timeline, ch.deltas) =
               SameSegmentPairs(InputTimeline, InputLevels, Rises(InputLevels))
        /\ SegmentEnds(ch.continuous_levels) = Rises(InputLevels)
        /\ Len(ch.deltas) + Cardinality(Rises(InputLevels)) =
               (IF Len(InputLevels) = 0 THEN 0 ELSE Len(InputLevels) - 1)
        /\ \A k \in 1..Len(ch.deltas) : ch.deltas[k] >= 0

\* a history with a removal after a retained delta and before another one
C19_Witness ==
    /\ ctor_exc = "none"
    /\ Len(ch.continuous_levels) = 2
    /\ Len(ch.deltas) = 2
    /\ Len(InputLevels) = 4
    /\ ch.deltas_timeline = <<InputTimeline[2], InputTimeline[4]>>

\* the bucket of the claim's rule: bucket 0 up to b[0], bucket k above
\* b[k-1] up to b[k], bucket m above b[m-1] (counted from 1 here)
InBucket(tops, t, c) ==
    /\ (c = 1 \/ t > tops[c - 1])
    /\ (c = Len(tops) + 1 \/ t <= tops[c])

ValuesOf(pairs) == [k \in 1..Len(pairs) |-> pairs[k][2]]

BucketRule(tops, objects, buckets) ==
    /\ Len(buckets) = Len(tops) + 1
    /\ \A k \in 1..Len(objects) :
           Cardinality({c \in 1..(Len(tops) + 1) : InBucket(tops, objects[k][1], c)}) = 1
    /\ \A c \in 1..Len(buckets) :
           buckets[c] = ValuesOf(SelectSeq(objects, LAMBDA x : InBucket(tops, x[1], c)))
    /\ Len(Concat(buckets)) = Len(objects)

SumsOf(buckets, sums) ==
    /\ Len(sums) = Len(buckets)
    /\ \A c \in 1..Len(buckets) :
           sums[c] = IF Len(buckets[c]) = 0 THEN 0 ELSE SumSeq(buckets[c])

ClusteredAs(objects, timeline, sums, buckets) ==
    /\ BucketRule(Tail(timeline), objects, buckets)
    /\ SumsOf(buckets, sums)
    /\ Len(sums) = Len(timeline)

\* what _init_ph or _init_pd left behind: timeline and sums
Clustered(objects, timeline, sums) ==
    /\ Len(timeline) > 0
    /\ ClusteredAs(objects, timeline, sums, CH_cluster(Tail(timeline), objects))

ClusteredPerHour(o) ==
    Clustered(Zip(o.deltas_timeline, o.deltas), o.deltas_timeline_ph, o.deltas_ph)

ClusteredPerDay(o) ==
    Clustered(Zip(o.deltas_timeline, o.deltas), o.deltas_timeline_pd, o.deltas_pd)

SameLength(r1, r2) ==
    /\ r1.exc = "none"
    /\ r2.exc = "none"
    /\ Len(Val(r1.ret)) = Len(Val(r2.ret))

\* r is what get_per_hour_deltas yields: the aggregation it ran or found,
\* and get_per_hour_timeline called after it
PerHourOk(r) ==
    /\ r.exc = "none"
    /\ ClusteredPerHour(r.obj)
    /\ SameLength(r, CH_get_per_hour_timeline(r.obj))

PerDayOk(r) ==
    /\ r.exc = "none"
    /\ ClusteredPerDay(r.obj)
    /\ SameLength(r, CH_get_per_day_timeline(r.obj))

---------------------------------------------------------------------------
(* Properties of RainLastHours *)

\* the number of impulses of the calendar hour starting at mark m
ImpulsesInHour(records, m) ==
    Cardinality({j \in 1..Len(records) : m <= records[j] /\ records[j] < m + SECONDS_PER_HOUR})

ConsecutiveHours(t) ==
    \A k \in 1..(Len(t) - 1) : t[k + 1] = t[k] + SECONDS_PER_HOUR

\* C17: RainLastHours is built for every delivery of impulses; its timeline
\* is consecutive round hours from hours_in_the_past hours before the_date's
\* round hour up to the_date's round hour, and
\* get_percipitation_per_hour_mm has, for every mark, mm_per_impulse times
\* the number of impulses of that calendar hour.
C17_RainTimeline ==
    rain_in # None =>
        /\ ctor_exc = "none"
        /\ rain # None
        /\ rain.timeline # <<>>
        /\ ConsecutiveHours(rain.timeline)
        /\ rain.timeline[1] =
               HourStart(rain_in.the_date) - rain_in.hours_in_the_past * SECONDS_PER_HOUR
        /\ Last(rain.timeline) = HourStart(rain_in.the_date)
        /\ \A mm \in MmPerImpulse :
               /\ Len(Rain_get_percipitation_per_hour_mm(rain, mm)) = Len(rain.timeline)
               /\ \A k \in 1..Len(rain.timeline) :
                      Rain_get_percipitation_per_hour_mm(rain, mm)[k] =
                          Rat(mm[1] * ImpulsesInHour(rain_in.records, rain.timeline[k]), mm[2])


---------------------------------------------------------------------------
(* Properties of the graph classes *)

\* is_valid() of the data object the graph was built on
GraphDataIsValid ==
    IF Val(graph).cls \in TemperatureGraphs THEN TDC_is_valid_body(tdc)
    ELSE CH_is_valid_body(ch)

\* C18: for DailyTemperatureGraph, PerHourCesspitGraph and its subclasses and
\* PerDayCesspitGraph, plot_to_svg() on a graph whose data object reports
\* is_valid() == false returns the empty 1x1 SVG and never calls prepare_plot.
C18_NoDataRendering ==
    (graph # None /\ Val(graph).n_plots > 0 /\ ~GraphDataIsValid) =>
        /\ Val(graph).exc = "none"
        /\ Val(graph).ret = Some(EmptySvg)
        /\ Val(graph).n_prepare = 0


---------------------------------------------------------------------------
(* Properties of the per-hour observation sets and the synthesized values *)

\* the positions of the readings of the hour before h and of the hour from h
LastHourOf(recs, h) ==
    SelectSeq([k \in 1..Len(recs) |-> k], LAMBDA k :
        0 < h - recs[k].timestamp /\ h - recs[k].timestamp <= SECONDS_PER_HOUR)
NextHourOf(recs, h) ==
    SelectSeq([k \in 1..Len(recs) |-> k], LAMBDA k :
        0 <= recs[k].timestamp - h /\ recs[k].timestamp - h <= SECONDS_PER_HOUR)

\* the positions of the latest readings strictly before h and of the
\* earliest readings strictly after h
LatestBefore(recs, h) ==
    {k \in 1..Len(recs) :
        /\ recs[k].timestamp < h
        /\ \A j \in 1..Len(recs) :
               recs[j].timestamp < h => recs[j].timestamp <= recs[k].timestamp}
EarliestAfter(recs, h) ==
    {k \in 1..Len(recs) :
        /\ recs[k].timestamp > h
        /\ \A j \in 1..Len(recs) :
               recs[j].timestamp > h => recs[j].timestamp >= recs[k].timestamp}

\* "the part, or if it is empty one of the closest readings, or nothing"
PartOrClosest(part, closest) ==
    IF Len(part) > 0 THEN {part}
    ELSE IF closest = {} THEN {<<>>}
    ELSE {<<k>> : k \in closest}

NoDuplicates(sq) == \A i, j \in 1..Len(sq) : i # j => sq[i] # sq[j]

\* obs is the observation set of the mark h over the readings recs
ObservationRule(recs, h, obs) ==
    /\ \E head \in PartOrClosest(LastHourOf(recs, h), LatestBefore(recs, h)) :
       \E tail \in PartOrClosest(NextHourOf(recs, h), EarliestAfter(recs, h)) :
           obs = head \o tail
    /\ NoDuplicates(obs)
    /\ Len(recs) > 0 => Len(obs) > 0

\* C21: for every hour mark h the observations regressed are the supplied
\* readings of the hour before h (or, if none, the latest reading strictly
\* before h) followed by the readings of the hour from h (or, if none, the
\* earliest reading strictly after h); no reading twice, and at least one
\* whenever readings were supplied.
C21_ObservationSets ==
    \A m \in 1..Len(PhTimeline(tdc.the_date)) :
        ObservationRule(tdc_in.records, PhTimeline(tdc.the_date)[m],
                        Observations(tdc, PhTimeline(tdc.the_date)[m]))


\* the timestamp given to a synthesized night extreme: sunrise for the first
\* reading of the day partition, sunset for the last - sunrise again when the
\* chronology is for today and that timestamp lies after its date
SynthStamp(o, first) ==
    IF first THEN o.sunrise
    ELSE IF o.is_for_today /\ o.sunset > o.the_date THEN o.sunrise
    ELSE o.sunset

\* r returned the tuple (stamp of the chosen reading, temp), the chosen
\* reading being the first (temperature t1) or the last (temperature tn) one
ReportsChosen(r, temp, t1, tn) ==
    /\ r.exc = "none"
    /\ Val(r.ret)[2] = Some(temp)
    /\ \/ t1 = temp /\ Val(r.ret)[1] = Some(SynthStamp(r.obj, TRUE))
       \/ tn = temp /\ Val(r.ret)[1] = Some(SynthStamp(r.obj, FALSE))

ReportsAvg(r, avg) == r.exc = "none" /\ r.ret = Some(avg)

\* the night accessors of o, the day partition's first and last supplied
\* temperature being t1 and tn
NightSynthesized(o, t1, tn) ==
    /\ ReportsChosen(TDC_get_min_night(o), IF t1 < tn THEN t1 ELSE tn, t1, tn)
    /\ ReportsChosen(TDC_get_max_night(o), IF t1 > tn THEN t1 ELSE tn, t1, tn)
    /\ ReportsAvg(TDC_get_avg_night(o), Rat(t1 + tn, 2))

DayOnly(w) == Len(w.day) > 0 /\ Len(w.night) = 0
NightOnly(w) == Len(w.night) > 0 /\ Len(w.day) = 0

NightSynthesizedFrom(w) ==
    DayOnly(w) =>
        NightSynthesized(tdc, tdc_in.records[w.day[1]].temperature,
                         tdc_in.records[Last(w.day)].temperature)

\* C22: with day readings only, get_min_night() reports the colder and
\* get_max_night() the warmer of the day partition's first and last reading,
\* stamped sunrise (first chosen) or sunset (last chosen) - sunrise when the
\* chronology is for today and the stamp lies after its date - and
\* get_avg_night() is (first temperature + last temperature) / 2.
C22_NightSynthesis == NightSynthesizedFrom(InputPartition)

\* the night statistics were synthesized from two day readings, the first
\* one colder, and read
C22_Witness ==
    /\ DayOnly(InputPartition)
    /\ Len(tdc_in.records) = 2
    /\ tdc_in.records[1].temperature < tdc_in.records[2].temperature
    /\ tdc.n_init_raw = 1
    /\ tdc.raw_min_night = 1
    /\ tdc.raw_max_night = 2
    /\ tdc.raw_records[1].timestamp = tdc.sunrise
    /\ ~IsNone(tdc.raw_avg_night)


ReportsTuple(r, stamp, temp) ==
    r.exc = "none" /\ r.ret = Some(<<Some(stamp), Some(temp)>>)

ReportsNothing(r) == r.exc = "none" /\ r.ret = Some(NoneTuple)

\* the day accessors of o when the night readings have the temperatures temps
DayCopied(o, temps) ==
    IF ~o.is_for_today \/ o.the_date > o.sunrise
    THEN /\ ReportsTuple(TDC_get_min_day(o), o.sunset, MinOf(temps))
         /\ ReportsTuple(TDC_get_max_day(o), o.sunset, MaxOf(temps))
         /\ ReportsAvg(TDC_get_avg_day(o), tmean(temps))
    ELSE /\ ReportsNothing(TDC_get_min_day(o))
         /\ ReportsNothing(TDC_get_max_day(o))
         /\ TDC_get_avg_day(o).exc = "none"
         /\ IsNone(TDC_get_avg_day(o).ret)
         /\ TDC_has_day_data(o).exc = "none"
         /\ TDC_has_day_data(o).ret = Some(FALSE)

DayCopiedFrom(w) == NightOnly(w) => DayCopied(tdc, Temps(tdc_in.records, w.night))

\* C23: with night readings only, if the chronology is not for today or its
\* date is after sunrise, get_min_day() / get_max_day() return the night
\* minimum's / maximum's temperature stamped sunset and get_avg_day() the
\* night mean; otherwise they return (None, None) and None and
\* has_day_data() is false.
C23_DayFromNight == DayCopiedFrom(InputPartition)

\* the day statistics were copied from two night readings of different
\* temperature and read
C23_Witness ==
    /\ NightOnly(InputPartition)
    /\ Len(tdc_in.records) = 2
    /\ tdc_in.records[1].temperature > tdc_in.records[2].temperature
    /\ tdc.n_init_raw = 1
    /\ tdc.raw_min_day = 2
    /\ tdc.raw_max_day = 1
    /\ tdc.raw_records[1].timestamp = tdc.sunset
    /\ ~IsNone(tdc.raw_avg_day)


---------------------------------------------------------------------------
(* Properties of the spliced cesspit history *)

\* the points (timestamp, level) of the continuous timeline, all segments
PointsOf(o) == Zip(Concat(o.continuous_timelines), Concat(o.continuous_levels))

\* the number of points before the window readings
Lead(in) == IF IsNone(in.prev) THEN 0 ELSE 1

Midnight(t) == t - (t % 86400)

\* pts is the window in.records with the adherent readings spliced in
SplicedAs(in, pts) ==
    /\ Len(pts) = Lead(in) + Len(in.records) + (IF IsNone(in.next) THEN 0 ELSE 1)
    /\ \A k \in 1..Len(in.records) :
           pts[Lead(in) + k][1] = in.records[k].timestamp
    /\ ~IsNone(in.prev) =>
           /\ pts[1][2] = Val(in.prev).level
           /\ pts[1][1] = IF Len(in.records) = 0 THEN Val(in.prev).timestamp
                          ELSE Midnight(in.records[1].timestamp)
    /\ ~IsNone(in.next) =>
           /\ Last(pts)[2] = Val(in.next).level
           /\ Last(pts)[1] = IF Len(in.records) = 0 THEN Val(in.next).timestamp
                             ELSE Midnight(Last(in.records).timestamp) + 86399

\* C24: with a non-empty window a supplied adherent-previous reading is the
\* first point of the continuous timeline, at 00:00:00 of the first window
\* reading's day, and a supplied adherent-next reading the last point, at
\* 23:59:59 of the last window reading's day; with an empty window each
\* keeps its own timestamp; the window readings keep timestamps and order.
C24_AdherentSplicing ==
    ctor_exc = "none" =>
        /\ SplicedAs(ch_in, PointsOf(ch))
        /\ ch.records = SplicedRecords(ch_in.records, ch_in.prev, ch_in.next)

\* a window of two readings with both adherent readings spliced in
C24_Witness ==
    /\ ctor_exc = "none"
    /\ ~IsNone(ch_in.prev)
    /\ ~IsNone(ch_in.next)
    /\ Len(ch_in.records) = 2
    /\ Len(PointsOf(ch)) = 4
    /\ PointsOf(ch)[1][1] # Val(ch_in.prev).timestamp
    /\ PointsOf(ch)[4][1] # Val(ch_in.next).timestamp
    /\ PointsOf(ch)[2][1] = ch_in.records[1].timestamp


\* the marks r returned start at the floor of the first point's timestamp
\* and span every timestamp of ts, unit being the distance of the marks
Covers(r, first, ts, unit) ==
    /\ r.exc = "none"
    /\ Len(Val(r.ret)) > 0
    /\ Val(r.ret)[1] = first - (first % unit)
    /\ \A k \in 1..Len(ts) :
           /\ Val(r.ret)[1] <= ts[k]
           /\ ts[k] < Last(Val(r.ret)) + unit

\* C26: the per-hour and per-day timelines start at the hour (day) floor of
\* the first timestamp of the continuous timeline and every retained delta
\* timestamp t satisfies first mark <= t < last mark + 1 hour (1 day), also
\* when adherent records were spliced in.
C26_TimelinesCoverDeltas ==
    (ctor_exc = "none" /\ Len(ch.records) > 0) =>
        /\ Covers(CH_get_per_hour_timeline(ch), PointsOf(ch)[1][1],
                  ch.deltas_timeline, SECONDS_PER_HOUR)
        /\ Covers(CH_get_per_day_timeline(ch), PointsOf(ch)[1][1],
                  ch.deltas_timeline, SECONDS_PER_DAY)


\* r returned timestamp and temperature, as supplied, of one of the readings
\* recs[k], k in idx, and none of them is colder (sign 1) / warmer (sign -1)
ReportsExtreme(r, recs, idx, sign) ==
    /\ r.exc = "none"
    /\ \E j \in 1..Len(idx) :
           /\ r.ret = Some(<<Some(recs[idx[j]].timestamp), Some(recs[idx[j]].temperature)>>)
           /\ \A i \in 1..Len(idx) :
                  sign * recs[idx[j]].temperature <= sign * recs[idx[i]].temperature

AllOf(recs) == [k \in 1..Len(recs) |-> k]

ExtremesAreReadings(o, recs, w) ==
    /\ Len(recs) > 0 =>
           /\ ReportsExtreme(TDC_get_min_daily(o), recs, AllOf(recs), 1)
           /\ ReportsExtreme(TDC_get_max_daily(o), recs, AllOf(recs), -1)
    /\ Len(w.night) > 0 =>
           /\ ReportsExtreme(TDC_get_min_night(o), recs, w.night, 1)
           /\ ReportsExtreme(TDC_get_max_night(o), recs, w.night, -1)
    /\ Len(w.day) > 0 =>
           /\ ReportsExtreme(TDC_get_min_day(o), recs, w.day, 1)
           /\ ReportsExtreme(TDC_get_max_day(o), recs, w.day, -1)

\* C27: get_min_daily() and get_max_daily() - and the night / day extremes
\* when that partition has readings - return timestamp and temperature of a
\* supplied reading attaining the extreme, with the timestamp it was
\* supplied with, whatever was synthesized for an empty partition.
C27_ExtremesAreReadings == ExtremesAreReadings(tdc, tdc_in.records, InputPartition)


\* a second instance built from the same arguments, no accessor called yet
FreshInstance ==
    TDC_new(tdc_in.records, tdc_in.the_date, tdc_in.is_for_today, tdc_in.identical_x)

SameOutcome(r1, r2) == r1.exc = r2.exc /\ r1.ret = r2.ret

\* C28: accessor order independence - whatever accessors were called on an
\* instance before, each accessor yields what it yields as the first call on
\* a second instance built from equal inputs; in particular the per-hour
\* series do not depend on a statistics accessor having been called before.
C28_OrderIndependent ==
    \A a \in TDC_Accessors : SameOutcome(TDC_call(a, tdc), TDC_call(a, FreshInstance))


-----------------------------------------------------------------------------
\* ProgressBar.cached_svg (analysis/graph.py): a class-level dictionary used
\* as a memo by the request handlers, which run in concurrent threads.
\* A thread can be suspended between any two of: the membership test, the
\* rendering, the store into the dictionary, the final lookup.

\* number of calls each caller makes
MaxCalls == 2

PbCallers == {"t1", "t2"}

PbArgs ==
    { [progress |-> p, size |-> <<4, 1>>, do_show_border |-> FALSE,
       colormap_name |-> "BuGn", color_name |-> c] :
        p \in {20, 70}, c \in {None} } \cup
    { [progress |-> 70, size |-> <<4, 1>>, do_show_border |-> FALSE,
       colormap_name |-> "BuGn", color_name |-> <<"red">>] }

\* str() of the argument kinds, as sequences of text pieces
StrSize(sz) == <<"(", ToString(sz[1]), ", ", ToString(sz[2]), ")">>
StrBool(b) == IF b THEN <<"True">> ELSE <<"False">>
StrOptional(v) == IF v = None THEN <<"None">> ELSE v

\* _hash = f"{progress}-{size}-{do_show_border}-{colormap_name}-{color_name}"
ProgressBar_hash(a) ==
    <<ToString(a.progress), "-">> \o StrSize(a.size) \o <<"-">>
        \o StrBool(a.do_show_border) \o <<"-", a.colormap_name, "-">>
        \o StrOptional(a.color_name)

\* ProgressBar.__init__: the colour is the named colour if a name is given,
\* else the colormap evaluated at progress / 100
ProgressBar_color(a) ==
    IF a.color_name # None
    THEN [named |-> a.color_name, cmap |-> None, at |-> None]
    ELSE [named |-> None, cmap |-> <<a.colormap_name>>, at |-> <<a.progress>>]

\* ProgressBar(...).plot_to_svg(): has_valid_data is inherited from Graph and
\* its return value is truthy, so the bar is always drawn
ProgressBar_plot_to_svg(a) ==
    [kind |-> "progress bar", progress |-> a.progress, size |-> a.size,
     border |-> a.do_show_border, color |-> ProgressBar_color(a),
     label_outside |-> (a.progress < 30)]

\* a Python dict as the sequence of its entries
DictHas(d, k) == \E i \in 1..Len(d) : d[i].key = k
DictGet(d, k) == d[CHOOSE i \in 1..Len(d) : d[i].key = k].value
DictSet_append(d, k, v) == Append(d, [key |-> k, value |-> v])
DictSet(d, k, v) ==
    IF DictHas(d, k)
    THEN [i \in 1..Len(d) |-> IF d[i].key = k THEN [key |-> k, value |-> v] ELSE d[i]]
    ELSE Append(d, [key |-> k, value |-> v])

PbIdle == [pc |-> "idle", args |-> None, svg |-> None, ret |-> None, calls |-> 0]

InitCache ==
    /\ pb = [cache |-> <<>>,
             renders |-> [a \in PbArgs |-> 0],
             overlapped |-> FALSE,
             callers |-> [c \in PbCallers |-> PbIdle]]
    /\ pg = None
    /\ poller = None
    /\ tdc_in = None
    /\ tdc = None
    /\ ch_in = None
    /\ ch = None
    /\ ctor_exc = None
    /\ watched = "none"
    /\ first_ret = None
    /\ last_ret = None
    /\ NoRain
    /\ graph = None

PbOthers == <<tdc_in, tdc, ch_in, ch, ctor_exc, watched, first_ret, last_ret,
              rain_in, rain, rain_ret, graph, pg, poller>>

PbInCall(c) == pb.callers[c].pc # "idle"

\* a request handler calls cached_svg(...)
cached_svg_enter(c, a) ==
    /\ pb.callers[c].pc = "idle"
    /\ pb.callers[c].calls < MaxCalls
    /\ pb' = [pb EXCEPT
                !.callers[c] = [pc |-> "test", args |-> <<a>>, svg |-> None,
                                ret |-> None, calls |-> @.calls + 1],
                !.overlapped = @ \/ (\E o \in PbCallers \ {c} : PbInCall(o))]
    /\ UNCHANGED PbOthers

\* if _hash not in ProgressBar._CACHE:
cached_svg_test(c) ==
    /\ pb.callers[c].pc = "test"
    /\ pb' = [pb EXCEPT !.callers[c].pc =
                IF DictHas(pb.cache, ProgressBar_hash(pb.callers[c].args[1]))
                THEN "return" ELSE "render"]
    /\ UNCHANGED PbOthers

\* ProgressBar(...).plot_to_svg(), the right-hand side of the assignment
cached_svg_render(c) ==
    /\ pb.callers[c].pc = "render"
    /\ pb' = [pb EXCEPT
                !.callers[c].pc = "store",
                !.callers[c].svg = <<ProgressBar_plot_to_svg(pb.callers[c].args[1])>>,
                !.renders[pb.callers[c].args[1]] = @ + 1]
    /\ UNCHANGED PbOthers

\* ProgressBar._CACHE[_hash] = <the rendered bytes>
cached_svg_store(c) ==
    /\ pb.callers[c].pc = "store"
    /\ pb' = [pb EXCEPT
                !.callers[c].pc = "return",
                !.cache = DictSet(@, ProgressBar_hash(pb.callers[c].args[1]),
                                  pb.callers[c].svg[1])]
    /\ UNCHANGED PbOthers

\* return ProgressBar._CACHE[_hash]
cached_svg_return(c) ==
    /\ pb.callers[c].pc = "return"
    /\ pb' = [pb EXCEPT
                !.callers[c].pc = "idle",
                !.callers[c].ret =
                    <<DictGet(pb.cache, ProgressBar_hash(pb.callers[c].args[1]))>>]
    /\ UNCHANGED PbOthers

NextCache ==
    \E c \in PbCallers :
        \/ \E a \in PbArgs : cached_svg_enter(c, a)
        \/ cached_svg_test(c)
        \/ cached_svg_render(c)
        \/ cached_svg_store(c)
        \/ cached_svg_return(c)

SpecCache == InitCache /\ [][NextCache]_vars

\* the entries of the dictionary that are stored under key k
EntriesOf(d, k) == {i \in 1..Len(d) : d[i].key = k}

\* every caller that has returned holds the bar drawn for its own arguments
ReturnsOwnBar ==
    \A c \in PbCallers :
        (pb.callers[c].pc = "idle" /\ pb.callers[c].ret # None) =>
            pb.callers[c].ret[1] = ProgressBar_plot_to_svg(pb.callers[c].args[1])

\* C25: whatever the interleaving of the callers of cached_svg, the cache
\* holds at most one entry per key, each entry is the bar drawn for that key
\* and a returned call yields the bar of its own arguments; a key is drawn at
\* most once per caller, and at most once altogether when no two calls
\* overlapped.  (That it can be drawn twice when calls overlap is the state
\* C25_Witness.)
C25_CachedSvg ==
    pb # None =>
        /\ \A a \in PbArgs :
            /\ Cardinality(EntriesOf(pb.cache, ProgressBar_hash(a))) <= 1
            /\ \A i \in EntriesOf(pb.cache, ProgressBar_hash(a)) :
                /\ pb.cache[i].value = ProgressBar_plot_to_svg(a)
                /\ pb.renders[a] >= 1
            /\ pb.renders[a] <= Cardinality(PbCallers)
            /\ ~pb.overlapped => pb.renders[a] <= 1
        /\ ReturnsOwnBar

\* two overlapping calls with the same key have both found the key absent,
\* both drawn the bar and both stored it; the cache holds one entry
C25_Witness ==
    /\ pb # None
    /\ \A c \in PbCallers : pb.callers[c].pc = "idle" /\ pb.callers[c].calls = 1
    /\ \E a \in PbArgs :
        /\ \A c \in PbCallers : pb.callers[c].args = <<a>>
        /\ pb.renders[a] = 2
        /\ Cardinality(EntriesOf(pb.cache, ProgressBar_hash(a))) = 1

-----------------------------------------------------------------------------
\* PredictionCesspitGraph.plot_to_svg (analysis/graph.py): the class keeps
\* the as_of_date of the prediction drawn last and the SVG drawn for it.
\* Every request builds its own instance; the handlers run in concurrent
\* threads and can be suspended between any two statements.

PgCallers == {"t1", "t2"}

\* as_of_date of an instance's prediction_data
PgDates == {1, 2}

\* number of per-day entries of an instance's past_data
PgPastDays == {0, 1}

PgIdle == [pc |-> "idle", as_of_date |-> None, past_days |-> None, svg |-> None,
           ret |-> None, returned |-> FALSE, exc |-> None, calls |-> 0]

InitPrediction ==
    /\ pg = [_CACHED_DATA_DATE |-> None,
             _CACHED_SVG |-> None,
             callers |-> [c \in PgCallers |-> PgIdle]]
    /\ pb = None
    /\ poller = None
    /\ tdc_in = None
    /\ tdc = None
    /\ ch_in = None
    /\ ch = None
    /\ ctor_exc = None
    /\ watched = "none"
    /\ first_ret = None
    /\ last_ret = None
    /\ NoRain
    /\ graph = None

PgOthers == <<tdc_in, tdc, ch_in, ch, ctor_exc, watched, first_ret, last_ret,
              rain_in, rain, rain_ret, graph, pb, poller>>

\* prepare_plot indexes _timeline_per_day[-1]: IndexError on an empty list
Prediction_prepare_plot(past_days) ==
    IF past_days = 0 THEN "IndexError" ELSE "ok"

\* the SVG drawn by Graph.plot_to_svg for an instance
Prediction_render(as_of_date, past_days) ==
    [kind |-> "prediction", as_of_date |-> as_of_date, past_days |-> past_days]

\* the caller's position after super().plot_to_svg() has drawn or raised
Prediction_drawn(me) ==
    IF Prediction_prepare_plot(me.past_days[1]) = "ok"
    THEN [me EXCEPT !.pc = "store",
                    !.svg = <<Prediction_render(me.as_of_date[1], me.past_days[1])>>]
    ELSE [me EXCEPT !.pc = "idle",
                    !.exc = <<Prediction_prepare_plot(me.past_days[1])>>]

\* a request handler builds PredictionCesspitGraph(...) and calls plot_to_svg()
Prediction_enter(c, d, n) ==
    /\ pg.callers[c].pc = "idle"
    /\ pg.callers[c].calls < MaxCalls
    /\ pg' = [pg EXCEPT !.callers[c] =
                [pc |-> "test", as_of_date |-> <<d>>, past_days |-> <<n>>,
                 svg |-> None, ret |-> None, returned |-> FALSE, exc |-> None,
                 calls |-> @.calls + 1]]
    /\ UNCHANGED PgOthers

\* if _CACHED_DATA_DATE is not None and _CACHED_DATA_DATE == as_of_date:
Prediction_test(c) ==
    /\ pg.callers[c].pc = "test"
    /\ pg' = [pg EXCEPT !.callers[c].pc =
                IF pg._CACHED_DATA_DATE # None
                   /\ pg._CACHED_DATA_DATE = pg.callers[c].as_of_date
                THEN "hit" ELSE "setdate"]
    /\ UNCHANGED PgOthers

\* return PredictionCesspitGraph._CACHED_SVG   (the cached branch)
Prediction_hit(c) ==
    /\ pg.callers[c].pc = "hit"
    /\ pg' = [pg EXCEPT !.callers[c].pc = "idle",
                        !.callers[c].ret = pg._CACHED_SVG,
                        !.callers[c].returned = TRUE]
    /\ UNCHANGED PgOthers

\* PredictionCesspitGraph._CACHED_DATA_DATE = self.prediction_data.as_of_date
Prediction_setdate(c) ==
    /\ pg.callers[c].pc = "setdate"
    /\ pg' = [pg EXCEPT !.callers[c].pc = "render",
                        !._CACHED_DATA_DATE = pg.callers[c].as_of_date]
    /\ UNCHANGED PgOthers

\* super().plot_to_svg(): draws, or raises out of plot_to_svg
Prediction_draw(c) ==
    /\ pg.callers[c].pc = "render"
    /\ pg' = [pg EXCEPT !.callers[c] = Prediction_drawn(pg.callers[c])]
    /\ UNCHANGED PgOthers

\* PredictionCesspitGraph._CACHED_SVG = <the drawn bytes>
Prediction_store(c) ==
    /\ pg.callers[c].pc = "store"
    /\ pg' = [pg EXCEPT !.callers[c].pc = "return",
                        !._CACHED_SVG = pg.callers[c].svg]
    /\ UNCHANGED PgOthers

\* return PredictionCesspitGraph._CACHED_SVG   (after drawing)
Prediction_return(c) ==
    /\ pg.callers[c].pc = "return"
    /\ pg' = [pg EXCEPT !.callers[c].pc = "idle",
                        !.callers[c].ret = pg._CACHED_SVG,
                        !.callers[c].returned = TRUE]
    /\ UNCHANGED PgOthers

NextPrediction ==
    \E c \in PgCallers :
        \/ \E d \in PgDates, n \in PgPastDays : Prediction_enter(c, d, n)
        \/ Prediction_test(c)
        \/ Prediction_hit(c)
        \/ Prediction_setdate(c)
        \/ Prediction_draw(c)
        \/ Prediction_store(c)
        \/ Prediction_return(c)

SpecPrediction == InitPrediction /\ [][NextPrediction]_vars

\* the value a call returned is an SVG drawn for the date d
DrawnFor(ret, d) == ret # None /\ ret[1].as_of_date = d

\* C29: every call of PredictionCesspitGraph.plot_to_svg() that has returned
\* has returned an SVG that was drawn for the as_of_date of its own instance:
\* never None and never the SVG of another date, in every interleaving and
\* after a call whose drawing raised.
C29_OwnDateSvg ==
    pg # None =>
        \A c \in PgCallers :
            pg.callers[c].returned =>
                DrawnFor(pg.callers[c].ret, pg.callers[c].as_of_date[1])

-----------------------------------------------------------------------------
\* The status poller (sys_status.py) and its shutdown (info.py).  InfoApp
\* starts SystemStatusThread and registers the bound method
\* _stop_system_status_thread as the SIGTERM handler.  ExitEvent is imported
\* from core.util; it is used as one process-wide event with set(), is_set()
\* and wait(timeout), and is modelled as one boolean.

\* positional parameters of _stop_system_status_thread besides self
HandlerParams == 0

\* positional arguments the interpreter passes to a signal handler:
\* the signal number and the interrupted frame
SignalArgs == 2

\* what one poll cycle found: (internet alive, database available)
PollResults == BOOLEAN \X BOOLEAN

\* SystemStatusJson(...) built by one cycle
SystemStatusJson(r) == [bean |-> "SystemStatusJson", alive |-> r[1], is_available |-> r[2]]

\* NotAvailableJsonBean()
NotAvailableJsonBean == [bean |-> "NotAvailableJsonBean"]

\* calling handler(signum, frame) on a function that takes only self raises
\* TypeError before its body runs; otherwise the body sets the exit event
\* and joins the thread
CallHandler(p) ==
    IF SignalArgs # HandlerParams
    THEN [p EXCEPT !.sigterm = "handled", !.handler_exc = <<"TypeError">>]
    ELSE [p EXCEPT !.sigterm = "joining", !.exit_event = TRUE]

\* SystemStatusThread.reading()
SystemStatusThread_reading(p) ==
    IF p._the_reading = None THEN <<NotAvailableJsonBean>> ELSE p._the_reading

InitStatus ==
    /\ poller = [exit_event |-> FALSE,
                 sigterm |-> "none",
                 handler_exc |-> None,
                 thread |-> "test",
                 _the_reading |-> None,
                 latest |-> None,
                 started_after_exit |-> FALSE,
                 last_read |-> None,
                 expected_read |-> None]
    /\ pb = None
    /\ pg = None
    /\ tdc_in = None
    /\ tdc = None
    /\ ch_in = None
    /\ ch = None
    /\ ctor_exc = None
    /\ watched = "none"
    /\ first_ret = None
    /\ last_ret = None
    /\ NoRain
    /\ graph = None

StatusOthers == <<tdc_in, tdc, ch_in, ch, ctor_exc, watched, first_ret, last_ret,
                  rain_in, rain, rain_ret, graph, pb, pg>>

\* while not ExitEvent().is_set(): ... ; after the loop the thread joins the
\* host-info thread and ends
Run_test ==
    /\ poller.thread = "test"
    /\ poller' = [poller EXCEPT !.thread =
                    IF poller.exit_event THEN "terminated" ELSE "polling"]
    /\ UNCHANGED StatusOthers

\* self._the_reading = SystemStatusJson(...): one poll cycle completes
Run_poll(r) ==
    /\ poller.thread = "polling"
    /\ poller' = [poller EXCEPT !.thread = "waiting",
                                !._the_reading = <<SystemStatusJson(r)>>,
                                !.latest = <<SystemStatusJson(r)>>,
                                !.started_after_exit = @ \/ poller.exit_event]
    /\ UNCHANGED StatusOthers

\* ExitEvent().wait(timeout=...) returns: the period has passed or the event
\* was set
Run_wait ==
    /\ poller.thread = "waiting"
    /\ poller' = [poller EXCEPT !.thread = "test"]
    /\ UNCHANGED StatusOthers

\* SIGTERM is delivered to the process
Sigterm_deliver ==
    /\ poller.sigterm = "none"
    /\ poller' = [poller EXCEPT !.sigterm = "delivered"]
    /\ UNCHANGED StatusOthers

\* the main thread runs the registered handler; the join in its body
\* returns once the thread has ended
Sigterm_handle ==
    /\ poller.sigterm \in {"delivered", "joining"}
    /\ poller.sigterm = "joining" => poller.thread = "terminated"
    /\ poller' = IF poller.sigterm = "delivered"
                 THEN CallHandler(poller)
                 ELSE [poller EXCEPT !.sigterm = "handled"]
    /\ UNCHANGED StatusOthers

\* a request handler calls system_status_thread.reading()
Reading ==
    /\ poller' = [poller EXCEPT
                    !.last_read = SystemStatusThread_reading(poller),
                    !.expected_read = IF poller.latest = None
                                      THEN <<NotAvailableJsonBean>> ELSE poller.latest]
    /\ UNCHANGED StatusOthers

NextStatus ==
    \/ Run_test
    \/ \E r \in PollResults : Run_poll(r)
    \/ Run_wait
    \/ Sigterm_deliver
    \/ Sigterm_handle
    \/ Reading

SpecStatus == InitStatus /\ [][NextStatus]_vars

\* the thread and the main thread's signal handling are scheduled; a SIGTERM
\* need not ever arrive and reading() need not ever be called
SpecStatusLive ==
    /\ SpecStatus
    /\ WF_vars(Run_test)
    /\ WF_vars(\E r \in PollResults : Run_poll(r))
    /\ WF_vars(Run_wait)
    /\ WF_vars(Sigterm_handle)

\* reading() returns NotAvailable before the first completed cycle and the
\* result of the latest completed cycle afterwards
ReadingIsLatest ==
    poller # None => poller.last_read = poller.expected_read

\* C30: once SIGTERM has been delivered, the registered handler sets the
\* exit event and the status thread, having finished the cycle in progress
\* and started no further one, terminates, so that the handler's join returns.
C30_Shutdown ==
    (poller # None /\ poller.sigterm = "delivered")
        ~> (/\ poller.exit_event
            /\ poller.thread = "terminated"
            /\ poller.sigterm = "handled"
            /\ poller.handler_exc = None
            /\ ~poller.started_after_exit)

=============================================================================
